---- MODULE Spec2Model ----
(***************************************************************************)
(* Session analytics of MyWebServiceDemo (src/session_module) together     *)
(* with the scoring strategies it calls (src/strategies).                  *)
(*                                                                         *)
(* The singleton SessionAnalytics object is the variable session_analytics *)
(* (a record of its three dictionaries).  Every public method is an        *)
(* operator from the object (and the arguments, and the clock reading) to  *)
(* the object after the call; the actions of Spec apply one whole method   *)
(* call at a time.  SpecStart and SpecComplete run start_session and       *)
(* log_challenge_complete as request-handling threads do: every read and   *)
(* every write of a shared dictionary entry is a step of its own.          *)
(*                                                                         *)
(* The variable timed is one TimedDecorator (src/decorators) around a      *)
(* challenge; SpecTimer calls its methods as the clock moves on.           *)
(* The variable score_calculator is one ScoreCalculator (src/strategies);   *)
(* SpecScore calls it with every scoring context of a bounded set, under   *)
(* each of the strategies.  In the specifications of SessionAnalytics it   *)
(* is the calculator SessionAnalytics.__init__ creates, with the default   *)
(* composite; SpecSwap exchanges its strategy between completions.         *)
(*                                                                         *)
(* Time is counted in whole clock ticks (seconds); a calendar day is       *)
(* TicksPerDay ticks long.                                                 *)
(***************************************************************************)
EXTENDS Integers, Sequences, FiniteSets, TLC

VARIABLES
    session_analytics,  \* the SessionAnalytics singleton: sessions, user_sessions, user_stats
    stats_obj,          \* identity of the dict object stored in user_stats[user]
    now,                \* datetime.now(), in ticks
    ret,                \* outcome of the last method call
    pc,                 \* per worker thread: position inside the method it runs
    frame,              \* per worker thread: arguments and local variables
    peak_streak,        \* per user: highest current_streak any session has held
    timed,              \* a TimedDecorator: time_limit, _start_time, _end_time
    timed_ret,          \* outcome of the last call on the TimedDecorator
    score_calculator,   \* a ScoreCalculator: its _strategy
    scoring,            \* the scoring context a caller holds, and what the last call with it returned
    session_manager     \* a SessionManager (components): sessions, user_sessions

vars == <<session_analytics, stats_obj, now, ret, pc, frame, peak_streak, timed, timed_ret,
          score_calculator, scoring, session_manager>>

----------------------------------------------------------------------------
(* Bounds of the model *)

MaxTime == 1
MaxInteractions == 2
MaxCalls == 2
TicksPerDay == 2

Users == {"u1", "u2"}
ChallengeIds == {"c1", "c2"}
EventTypes == {"click"}
CustomNames == {"s1"}
Workers == {"w1", "w2"}

(* Program constants *)

None == -1
DefaultTimeLimit == 30
DefaultDifficulty == 3

----------------------------------------------------------------------------
(* Generic helpers *)

EmptyMap == [x \in {} |-> 0]

Put(map, key, value) ==
    [k \in DOMAIN map \cup {key} |-> IF k = key THEN value ELSE map[k]]

Get(map, key, default) == IF key \in DOMAIN map THEN map[key] ELSE default

RECURSIVE SumSeq(_)
SumSeq(s) == IF s = <<>> THEN 0 ELSE Head(s) + SumSeq(Tail(s))

RECURSIVE GCD(_, _)
GCD(a, b) == IF b = 0 THEN a ELSE GCD(b, a % b)

\* The float a / b (a >= 0, b > 0), kept as the fraction in lowest terms.
TrueDiv(a, b) ==
    LET g == GCD(a, b) IN [num |-> a \div g, den |-> b \div g]

Zero == [num |-> 0, den |-> 1]

\* int(round(n / d)) for d > 0: Python rounds a half to the even integer.
PyRound(n, d) ==
    LET q == n \div d
        r == n % d
    IN  IF 2 * r < d THEN q
        ELSE IF 2 * r > d THEN q + 1
        ELSE IF q % 2 = 0 THEN q ELSE q + 1

----------------------------------------------------------------------------
(* Scoring strategies (src/strategies).  A scoring context is a record     *)
(* [time_taken, time_limit, is_correct, attempts, difficulty, streak].  A  *)
(* strategy is a record [composite, name, parts]; parts is the list of     *)
(* (strategy name, weight) pairs of a composite, a weight counted in       *)
(* hundredths.                                                             *)

\* the time-based score with an answer at the limit itself still in time
TimeBasedScore_limit_in_time(context) ==
    IF ~context.is_correct THEN 0
    ELSE IF context.time_taken > context.time_limit THEN 0
    ELSE IF context.time_taken * 100 <= 25 * context.time_limit THEN 100
    ELSE IF context.time_taken * 100 <= 50 * context.time_limit THEN 75
    ELSE IF context.time_taken * 100 <= 75 * context.time_limit THEN 50
    ELSE 25

TimeBasedScore(context) ==
    IF ~context.is_correct THEN 0
    ELSE IF context.time_taken >= context.time_limit THEN 0
    ELSE IF context.time_taken * 100 <= 25 * context.time_limit THEN 100
    ELSE IF context.time_taken * 100 <= 50 * context.time_limit THEN 75
    ELSE IF context.time_taken * 100 <= 75 * context.time_limit THEN 50
    ELSE 25

\* the accuracy score with the third attempt's 30 kept for all later attempts
AccuracyScore_floor_30(context) ==
    IF ~context.is_correct THEN 0
    ELSE IF context.attempts = 1 THEN 100
    ELSE IF context.attempts = 2 THEN 60
    ELSE 30

AccuracyScore(context) ==
    IF ~context.is_correct THEN 0
    ELSE IF context.attempts = 1 THEN 100
    ELSE IF context.attempts = 2 THEN 60
    ELSE IF context.attempts = 3 THEN 30
    ELSE 0

Min(a, b) == IF a <= b THEN a ELSE b

\* the streak score without the test of is_correct
StreakScore_any_answer(context) ==
    LET bonus == IF context.streak >= 10 THEN 50
                 ELSE IF context.streak >= 6 THEN 30
                 ELSE IF context.streak >= 4 THEN 20
                 ELSE IF context.streak >= 2 THEN 10
                 ELSE 0
    IN  Min(50 + bonus, 100)

\* the streak score with each bonus starting one answer later
StreakScore_late_bonus(context) ==
    IF ~context.is_correct THEN 0
    ELSE LET bonus == IF context.streak > 10 THEN 50
                      ELSE IF context.streak > 6 THEN 30
                      ELSE IF context.streak > 4 THEN 20
                      ELSE IF context.streak > 2 THEN 10
                      ELSE 0
         IN  Min(50 + bonus, 100)

StreakScore(context) ==
    IF ~context.is_correct THEN 0
    ELSE LET bonus == IF context.streak >= 10 THEN 50
                      ELSE IF context.streak >= 6 THEN 30
                      ELSE IF context.streak >= 4 THEN 20
                      ELSE IF context.streak >= 2 THEN 10
                      ELSE 0
         IN  Min(50 + bonus, 100)

DifficultyScore(context) ==
    IF ~context.is_correct THEN 0
    ELSE CASE context.difficulty = 1 -> 40
           [] context.difficulty = 2 -> 60
           [] context.difficulty = 3 -> 80
           [] context.difficulty = 4 -> 90
           [] context.difficulty = 5 -> 100
           [] OTHER -> 80

SimpleScore(name, context) ==
    CASE name = "time_based" -> TimeBasedScore(context)
      [] name = "accuracy_based" -> AccuracyScore(context)
      [] name = "streak_based" -> StreakScore(context)
      [] name = "difficulty_based" -> DifficultyScore(context)

Simple(name) == [composite |-> FALSE, name |-> name, parts |-> <<>>]

\* score * weight of every part, in hundredths of a point
WeightedScores(parts, context) ==
    [i \in 1..Len(parts) |-> SimpleScore(parts[i].strategy, context) * parts[i].weight]

CompositeScore(parts, context) ==
    PyRound(SumSeq(WeightedScores(parts, context)), 100)

calculate_score(strategy, context) ==
    IF strategy.composite THEN CompositeScore(strategy.parts, context)
    ELSE SimpleScore(strategy.name, context)

\* the levels with every threshold score counted to the level below
get_performance_level_above(score) ==
    IF score > 90 THEN "excellent"
    ELSE IF score > 70 THEN "good"
    ELSE IF score > 50 THEN "fair"
    ELSE "poor"

get_performance_level(score) ==
    IF score >= 90 THEN "excellent"
    ELSE IF score >= 70 THEN "good"
    ELSE IF score >= 50 THEN "fair"
    ELSE "poor"

\* a breakdown that lists the components last to first
get_breakdown_reversed(strategy, context) ==
    [total_score |-> calculate_score(strategy, context),
     components |->
        [i \in 1..Len(strategy.parts) |->
            LET part == strategy.parts[Len(strategy.parts) + 1 - i]
            IN  [strategy |-> part.strategy,
                 score |-> SimpleScore(part.strategy, context),
                 weight |-> part.weight,
                 weighted_score |-> SimpleScore(part.strategy, context) * part.weight]]]

get_breakdown(strategy, context) ==
    [total_score |-> calculate_score(strategy, context),
     components |->
        [i \in 1..Len(strategy.parts) |->
            [strategy |-> strategy.parts[i].strategy,
             score |-> SimpleScore(strategy.parts[i].strategy, context),
             weight |-> strategy.parts[i].weight,
             weighted_score |-> WeightedScores(strategy.parts, context)[i]]]]

NoBreakdown == [total_score |-> None, components |-> <<>>]

\* a result that names the default strategy whatever strategy computed it
get_detailed_result_default_name(strategy, context) ==
    LET score == calculate_score(strategy, context)
    IN  [score |-> score,
         performance |-> get_performance_level(score),
         strategy |-> "composite(time_based+accuracy_based+streak_based)",
         context |-> context,
         has_breakdown |-> strategy.composite,
         breakdown |-> IF strategy.composite THEN get_breakdown(strategy, context)
                       ELSE NoBreakdown]

\* ScoreCalculator.get_detailed_result; has_breakdown is "'breakdown' in result"
get_detailed_result(strategy, context) ==
    LET score == calculate_score(strategy, context)
    IN  [score |-> score,
         performance |-> get_performance_level(score),
         strategy |-> strategy.name,
         context |-> context,
         has_breakdown |-> strategy.composite,
         breakdown |-> IF strategy.composite THEN get_breakdown(strategy, context)
                       ELSE NoBreakdown]

\* The strategy SessionAnalytics.__init__ installs: 40% time, 40% accuracy, 20% streak
DefaultStrategy ==
    [composite |-> TRUE,
     name |-> "composite(time_based+accuracy_based+streak_based)",
     parts |-> << [strategy |-> "time_based", weight |-> 40],
                  [strategy |-> "accuracy_based", weight |-> 40],
                  [strategy |-> "streak_based", weight |-> 20] >>]

\* CompositeScoringStrategy.__init__ accepts a total weight of 0.99 to 1.01
MinTotalWeight == 99
MaxTotalWeight == 101

total_weight(parts) == SumSeq([i \in 1..Len(parts) |-> parts[i].weight])

RECURSIVE JoinNames(_)
JoinNames(parts) ==
    IF parts = <<>> THEN ""
    ELSE IF Len(parts) = 1 THEN parts[1].strategy
    ELSE parts[1].strategy \o "+" \o JoinNames(Tail(parts))

\* CompositeScoringStrategy.get_strategy_name
get_strategy_name(parts) == "composite(" \o JoinNames(parts) \o ")"

NoStrategy == [composite |-> FALSE, name |-> "", parts |-> <<>>]

Constructed(parts) ==
    [raised |-> "",
     strategy |-> [composite |-> TRUE, name |-> get_strategy_name(parts), parts |-> parts]]

\* a constructor that checks nothing
CompositeScoringStrategy_unchecked(parts) == Constructed(parts)

\* CompositeScoringStrategy(strategies): the new object, or the error raised
CompositeScoringStrategy(parts) ==
    IF ~(MinTotalWeight <= total_weight(parts) /\ total_weight(parts) <= MaxTotalWeight)
    THEN [raised |-> "ValueError", strategy |-> NoStrategy]
    ELSE Constructed(parts)

\* ScoreCalculator.__init__(strategy)
NewCalculator(strategy) == [_strategy |-> strategy]

\* the context of a first, correct answer given at once
DefaultContext ==
    [time_taken |-> 0, time_limit |-> DefaultTimeLimit, is_correct |-> TRUE,
     attempts |-> 1, difficulty |-> DefaultDifficulty, streak |-> 0]

(* What the caller of a ScoreCalculator holds: the context it passes and   *)
(* the value the last call returned, in the field of its type: score (an   *)
(* int), performance (a str) or detail (a dict); for a construction, the   *)
(* (strategy, weight) list it passed and the error raised, if any.         *)
NoScoring(context) ==
    [context |-> context, op |-> "", score |-> 0, performance |-> "", detail |-> <<>>,
     parts |-> <<>>, raised |-> ""]

set_strategy(self, strategy) == [self EXCEPT !._strategy = strategy]

\* ScoreCalculator.calculate
calculate(self, context) ==
    [NoScoring(context) EXCEPT !.op = "calculate",
                               !.score = calculate_score(self._strategy, context)]

\* ScoreCalculator.get_performance_level
calculator_performance_level(self, context) ==
    [NoScoring(context) EXCEPT
        !.op = "get_performance_level",
        !.performance = get_performance_level(calculate(self, context).score)]

\* ScoreCalculator.get_detailed_result
calculator_detailed_result(self, context) ==
    [NoScoring(context) EXCEPT !.op = "get_detailed_result",
                               !.detail = get_detailed_result(self._strategy, context)]

----------------------------------------------------------------------------
(* SessionAnalytics (src/session_module/session_analytics.py).  self is    *)
(* the record [sessions, user_sessions, user_stats]; t is datetime.now().  *)

NoSessionId == "<None>"
CustomIds == CustomNames
SessionIdArgs == CustomIds \cup {NoSessionId}

Challenges ==
    { [challenge_id |-> c, challenge_type |-> "habitat", animal_id |-> 1] : c \in ChallengeIds }

TimeLimitArgs == {None, 1}
DifficultyArgs == {DefaultDifficulty}

Today(t) == t \div TicksPerDay

NewAnalytics == [sessions |-> EmptyMap, user_sessions |-> EmptyMap, user_stats |-> EmptyMap]

\* SessionManager.__init__ (components/session_manager.py)
NewManager == [sessions |-> EmptyMap, user_sessions |-> EmptyMap]

GeneratedId(user_id, t) == user_id \o "_" \o ToString(t)

NewSession(session_id, user_id, t) ==
    [session_id |-> session_id,
     user_id |-> user_id,
     start_time |-> t,
     end_time |-> None,
     duration |-> 0,
     challenges_attempted |-> 0,
     interactions |-> <<>>,
     challenge_times |-> <<>>,
     active |-> TRUE,
     current_streak |-> 0,
     current_challenge_attempts |-> EmptyMap,
     scores |-> <<>>,
     total_score |-> 0]

NewUserStats ==
    [total_sessions |-> 0,
     total_play_time |-> 0,
     total_challenges |-> 0,
     total_interactions |-> 0,
     consecutive_days |-> 0,
     last_play_date |-> None,
     play_dates |-> <<>>,
     total_score |-> 0,
     best_streak |-> 0,
     avg_score |-> Zero]

Range(seq) == {seq[i] : i \in 1..Len(seq)}

\* ss_create that keeps a record already stored under the id
ss_create_setdefault(self, user_id, session_id, t) ==
    IF session_id \in DOMAIN self.sessions THEN self
    ELSE [self EXCEPT !.sessions = Put(@, session_id, NewSession(session_id, user_id, t))]

\* self.sessions[session_id] = {...}
ss_create(self, user_id, session_id, t) ==
    [self EXCEPT !.sessions = Put(@, session_id, NewSession(session_id, user_id, t))]

\* self.user_sessions[user_id] = []
ss_init_list(self, user_id) ==
    [self EXCEPT !.user_sessions = Put(@, user_id, <<>>)]

\* self.user_stats[user_id] = {...}
ss_init_stats(self, user_id) ==
    [self EXCEPT !.user_stats = Put(@, user_id, NewUserStats)]

\* self.user_sessions[user_id].append(session_id)
ss_append(self, user_id, session_id) ==
    [self EXCEPT !.user_sessions[user_id] = Append(@, session_id)]

\* stats[field] = value, on the dict stored for the user
SetStat(self, user_id, field, value) ==
    [self EXCEPT !.user_stats[user_id] = [@ EXCEPT ![field] = value]]

\* _update_consecutive_days that counts every later day as the next one
_update_consecutive_days_no_reset(self, user_id, t) ==
    LET stats == self.user_stats[user_id]
        today == Today(t)
        dates == IF today \in Range(stats.play_dates) THEN stats.play_dates
                 ELSE Append(stats.play_dates, today)
        diff == today - stats.last_play_date
        days == IF stats.last_play_date # None
                THEN IF diff >= 1 THEN stats.consecutive_days + 1
                     ELSE stats.consecutive_days
                ELSE 1
    IN  [self EXCEPT !.user_stats[user_id] =
            [@ EXCEPT !.play_dates = dates,
                      !.consecutive_days = days,
                      !.last_play_date = today]]

_update_consecutive_days(self, user_id, t) ==
    LET stats == self.user_stats[user_id]
        today == Today(t)
        dates == IF today \in Range(stats.play_dates) THEN stats.play_dates
                 ELSE Append(stats.play_dates, today)
        diff == today - stats.last_play_date
        days == IF stats.last_play_date # None
                THEN IF diff = 1 THEN stats.consecutive_days + 1
                     ELSE IF diff > 1 THEN 1
                     ELSE stats.consecutive_days
                ELSE 1
    IN  [self EXCEPT !.user_stats[user_id] =
            [@ EXCEPT !.play_dates = dates,
                      !.consecutive_days = days,
                      !.last_play_date = today]]

\* the id start_session stores the session under
SessionIdFor(user_id, session_id, t) ==
    IF session_id = NoSessionId THEN GeneratedId(user_id, t) ELSE session_id

start_session(self, user_id, session_id, t) ==
    LET sid == SessionIdFor(user_id, session_id, t)
        a == ss_create(self, user_id, sid, t)
        b == IF user_id \notin DOMAIN a.user_sessions
             THEN ss_init_stats(ss_init_list(a, user_id), user_id)
             ELSE a
        c == ss_append(b, user_id, sid)
        d == SetStat(c, user_id, "total_sessions", c.user_stats[user_id].total_sessions + 1)
    IN  _update_consecutive_days(d, user_id, t)

(* The outcome of a call: what it returned or raised.  value is the        *)
(* returned object (<<>> when the method returns nothing); was_active is   *)
(* the value of session['active'] that end_session read; duration is the   *)
(* local variable of log_challenge_complete.                               *)
Returned(op, session_id, value) ==
    [op |-> op, session_id |-> session_id, status |-> "ok",
     was_active |-> TRUE, duration |-> 0, value |-> value]

\* raise ValueError("Sessao ... nao encontrada")
NotFound(op, session_id) ==
    [op |-> op, session_id |-> session_id, status |-> "not_found",
     was_active |-> TRUE, duration |-> 0, value |-> <<>>]

Call(self, r) == [self |-> self, ret |-> r]

Known(self, session_id) == session_id \in DOMAIN self.sessions

\* log_challenge_start without the count of the interaction for the user
log_challenge_start_uncounted(self, session_id, challenge, t) ==
    IF ~Known(self, session_id)
    THEN Call(self, NotFound("log_challenge_start", session_id))
    ELSE
    LET session == self.sessions[session_id]
        interaction == [type |-> "challenge_start",
                        challenge_id |-> challenge.challenge_id,
                        challenge_type |-> challenge.challenge_type,
                        animal_id |-> challenge.animal_id,
                        start_time |-> t]
        attempts == session.current_challenge_attempts
        updated == [session EXCEPT
                       !.interactions = Append(@, interaction),
                       !.challenges_attempted = @ + 1,
                       !.current_challenge_attempts =
                           IF challenge.challenge_id \notin DOMAIN attempts
                           THEN Put(attempts, challenge.challenge_id, 0)
                           ELSE attempts]
        user_id == session.user_id
        a == [self EXCEPT !.sessions[session_id] = updated]
        b == SetStat(a, user_id, "total_challenges", a.user_stats[user_id].total_challenges + 1)
    IN  Call(b, Returned("log_challenge_start", session_id, <<>>))

log_challenge_start(self, session_id, challenge, t) ==
    IF ~Known(self, session_id)
    THEN Call(self, NotFound("log_challenge_start", session_id))
    ELSE
    LET session == self.sessions[session_id]
        interaction == [type |-> "challenge_start",
                        challenge_id |-> challenge.challenge_id,
                        challenge_type |-> challenge.challenge_type,
                        animal_id |-> challenge.animal_id,
                        start_time |-> t]
        attempts == session.current_challenge_attempts
        updated == [session EXCEPT
                       !.interactions = Append(@, interaction),
                       !.challenges_attempted = @ + 1,
                       !.current_challenge_attempts =
                           IF challenge.challenge_id \notin DOMAIN attempts
                           THEN Put(attempts, challenge.challenge_id, 0)
                           ELSE attempts]
        user_id == session.user_id
        a == [self EXCEPT !.sessions[session_id] = updated]
        b == SetStat(a, user_id, "total_challenges", a.user_stats[user_id].total_challenges + 1)
        c == SetStat(b, user_id, "total_interactions", b.user_stats[user_id].total_interactions + 1)
    IN  Call(c, Returned("log_challenge_start", session_id, <<>>))

\* FindStart without the comparison of the challenge id
FindStart_any_challenge(interactions, challenge_id) ==
    LET hits == {i \in 1..Len(interactions) : interactions[i].type = "challenge_start"}
    IN  IF hits = {} THEN 0 ELSE CHOOSE i \in hits : \A j \in hits : j <= i

\* index of the last challenge_start interaction of the challenge, 0 when there is none
FindStart(interactions, challenge_id) ==
    LET hits == {i \in 1..Len(interactions) :
                    /\ interactions[i].type = "challenge_start"
                    /\ interactions[i].challenge_id = challenge_id}
    IN  IF hits = {} THEN 0 ELSE CHOOSE i \in hits : \A j \in hits : j <= i

\* score_result = {}
EmptyResult == <<>>

ResultScore(score_result) ==
    IF score_result = EmptyResult THEN 0 ELSE score_result.score

ResultPerformance(score_result) ==
    IF score_result = EmptyResult THEN "poor" ELSE score_result.performance

(* lcc_session with  session['total_score'] = score  in place of  +=       *)
(* log_challenge_complete up to and including the append of the            *)
(* challenge_complete interaction (lines 166-232): everything it does to   *)
(* the session record.                                                     *)
lcc_session_assign(self, session_id, challenge_id, is_correct, difficulty, time_limit, t) ==
    LET session == self.sessions[session_id]
        start == FindStart(session.interactions, challenge_id)
        start_interaction == session.interactions[start]
        attempts == Get(session.current_challenge_attempts, challenge_id, 0) + 1
        counted == [session EXCEPT
                       !.current_challenge_attempts = Put(@, challenge_id, attempts)]
        duration == IF start # 0 THEN t - start_interaction.start_time ELSE 0
        scoring_context ==
            [time_taken |-> duration,
             time_limit |-> IF time_limit = None \/ time_limit = 0
                            THEN DefaultTimeLimit ELSE time_limit,
             is_correct |-> is_correct,
             attempts |-> attempts,
             difficulty |-> difficulty,
             streak |-> session.current_streak]
        score_result == IF start # 0
                        THEN get_detailed_result(score_calculator._strategy, scoring_context)
                        ELSE EmptyResult
        scored ==
            IF start # 0
            THEN [counted EXCEPT
                     !.current_streak = IF is_correct THEN @ + 1 ELSE 0,
                     !.scores = Append(@, score_result),
                     !.total_score = score_result.score,
                     !.challenge_times = Append(@,
                         [challenge_id |-> challenge_id,
                          challenge_type |-> start_interaction.challenge_type,
                          duration |-> duration,
                          is_correct |-> is_correct,
                          attempts |-> attempts,
                          score |-> score_result.score,
                          performance |-> score_result.performance])]
            ELSE counted
        interaction == [type |-> "challenge_complete",
                        challenge_id |-> challenge_id,
                        is_correct |-> is_correct,
                        score |-> ResultScore(score_result),
                        performance |-> ResultPerformance(score_result)]
        logged == [scored EXCEPT !.interactions = Append(@, interaction)]
    IN  [self |-> [self EXCEPT !.sessions[session_id] = logged],
         score_result |-> score_result,
         duration |-> duration]

(* log_challenge_complete up to and including the append of the            *)
(* challenge_complete interaction (lines 166-232): everything it does to   *)
(* the session record.  self.score_calculator is the variable              *)
(* score_calculator.                                                       *)
lcc_session(self, session_id, challenge_id, is_correct, difficulty, time_limit, t) ==
    LET session == self.sessions[session_id]
        start == FindStart(session.interactions, challenge_id)
        start_interaction == session.interactions[start]
        attempts == Get(session.current_challenge_attempts, challenge_id, 0) + 1
        counted == [session EXCEPT
                       !.current_challenge_attempts = Put(@, challenge_id, attempts)]
        duration == IF start # 0 THEN t - start_interaction.start_time ELSE 0
        scoring_context ==
            [time_taken |-> duration,
             time_limit |-> IF time_limit = None \/ time_limit = 0
                            THEN DefaultTimeLimit ELSE time_limit,
             is_correct |-> is_correct,
             attempts |-> attempts,
             difficulty |-> difficulty,
             streak |-> session.current_streak]
        score_result == IF start # 0
                        THEN get_detailed_result(score_calculator._strategy, scoring_context)
                        ELSE EmptyResult
        scored ==
            IF start # 0
            THEN [counted EXCEPT
                     !.current_streak = IF is_correct THEN @ + 1 ELSE 0,
                     !.scores = Append(@, score_result),
                     !.total_score = @ + score_result.score,
                     !.challenge_times = Append(@,
                         [challenge_id |-> challenge_id,
                          challenge_type |-> start_interaction.challenge_type,
                          duration |-> duration,
                          is_correct |-> is_correct,
                          attempts |-> attempts,
                          score |-> score_result.score,
                          performance |-> score_result.performance])]
            ELSE counted
        interaction == [type |-> "challenge_complete",
                        challenge_id |-> challenge_id,
                        is_correct |-> is_correct,
                        score |-> ResultScore(score_result),
                        performance |-> ResultPerformance(score_result)]
        logged == [scored EXCEPT !.interactions = Append(@, interaction)]
    IN  [self |-> [self EXCEPT !.sessions[session_id] = logged],
         score_result |-> score_result,
         duration |-> duration]

\* the comparison left out: best_streak follows current_streak
BeatsBest_always(self, session_id) == session_id \in DOMAIN self.sessions

\* if session['current_streak'] > self.user_stats[user_id]['best_streak']
BeatsBest(self, session_id) ==
    LET session == self.sessions[session_id]
    IN  session.current_streak > self.user_stats[session.user_id].best_streak

\* self.user_stats[user_id]['best_streak'] = session['current_streak']
SetBest(self, session_id) ==
    LET session == self.sessions[session_id]
    IN  SetStat(self, session.user_id, "best_streak", session.current_streak)

log_challenge_complete(self, session_id, challenge_id, is_correct, difficulty, time_limit, t) ==
    IF ~Known(self, session_id)
    THEN Call(self, NotFound("log_challenge_complete", session_id))
    ELSE
    LET a == lcc_session(self, session_id, challenge_id, is_correct, difficulty, time_limit, t)
        user_id == self.sessions[session_id].user_id
        b == SetStat(a.self, user_id, "total_interactions",
                     a.self.user_stats[user_id].total_interactions + 1)
        c == IF BeatsBest(b, session_id) THEN SetBest(b, session_id) ELSE b
    IN  Call(c, [Returned("log_challenge_complete", session_id, a.score_result)
                    EXCEPT !.duration = a.duration])

\* log_interaction putting the new interaction in front of the list
log_interaction_in_front(self, session_id, event_type, t) ==
    IF ~Known(self, session_id)
    THEN Call(self, NotFound("log_interaction", session_id))
    ELSE
    LET session == self.sessions[session_id]
        interaction == [type |-> event_type, data |-> <<>>]
        a == [self EXCEPT !.sessions[session_id].interactions = <<interaction>> \o @]
        b == SetStat(a, session.user_id, "total_interactions",
                     a.user_stats[session.user_id].total_interactions + 1)
    IN  Call(b, Returned("log_interaction", session_id, <<>>))

log_interaction(self, session_id, event_type, t) ==
    IF ~Known(self, session_id)
    THEN Call(self, NotFound("log_interaction", session_id))
    ELSE
    LET session == self.sessions[session_id]
        interaction == [type |-> event_type, data |-> <<>>]
        a == [self EXCEPT !.sessions[session_id].interactions = Append(@, interaction)]
        b == SetStat(a, session.user_id, "total_interactions",
                     a.user_stats[session.user_id].total_interactions + 1)
    IN  Call(b, Returned("log_interaction", session_id, <<>>))

\* the summary dictionary of a stored session
Summary(self, session_id) ==
    LET session == self.sessions[session_id]
        times == session.challenge_times
        types == {session.interactions[i].type : i \in 1..Len(session.interactions)}
    IN  [session_id |-> session_id,
         user_id |-> session.user_id,
         duration |-> session.duration,
         challenges_attempted |-> session.challenges_attempted,
         total_interactions |-> Len(session.interactions),
         interaction_breakdown |->
             [ty \in types |->
                 Cardinality({i \in 1..Len(session.interactions) :
                                 session.interactions[i].type = ty})],
         \* round(avg_challenge_time, 2), in hundredths of a tick
         avg_challenge_time |->
             IF times # <<>>
             THEN PyRound(100 * SumSeq([i \in 1..Len(times) |-> times[i].duration]),
                          Len(times))
             ELSE 0,
         challenge_times |-> times,
         start_time |-> session.start_time,
         end_time |-> session.end_time,
         active |-> session.active,
         total_score |-> session.total_score,
         current_streak |-> session.current_streak,
         scores |-> session.scores]

get_session_summary(self, session_id) ==
    IF ~Known(self, session_id)
    THEN Call(self, NotFound("get_session_summary", session_id))
    ELSE Call(self, Returned("get_session_summary", session_id, Summary(self, session_id)))

\* lines 287-293: duration, end_time, active
es_close(self, session_id, t) ==
    LET duration == t - self.sessions[session_id].start_time
    IN  [self EXCEPT !.sessions[session_id] =
            [@ EXCEPT !.end_time = t, !.duration = duration, !.active = FALSE]]

\* line 297: total_play_time += duration
es_play_time(self, session_id) ==
    LET session == self.sessions[session_id]
    IN  SetStat(self, session.user_id, "total_play_time",
                self.user_stats[session.user_id].total_play_time + session.duration)

\* line 298: total_score += session['total_score']
es_score(self, session_id) ==
    LET session == self.sessions[session_id]
    IN  SetStat(self, session.user_id, "total_score",
                self.user_stats[session.user_id].total_score + session.total_score)

\* lines 301-305: avg_score = total_score / total_challenges
es_avg(self, session_id) ==
    LET stats == self.user_stats[self.sessions[session_id].user_id]
    IN  IF stats.total_challenges > 0
        THEN SetStat(self, self.sessions[session_id].user_id, "avg_score",
                     TrueDiv(stats.total_score, stats.total_challenges))
        ELSE self

\* end_session returning the summary of an already ended session
EndedAlready(self, session_id) ==
    Call(self, [Returned("end_session", session_id, Summary(self, session_id))
                   EXCEPT !.was_active = FALSE])

\* end_session without the test of session['active']
end_session_unguarded(self, session_id, t) ==
    IF ~Known(self, session_id)
    THEN Call(self, NotFound("end_session", session_id))
    ELSE LET a == es_avg(es_score(es_play_time(es_close(self, session_id, t), session_id),
                                  session_id), session_id)
         IN  Call(a, Returned("end_session", session_id, Summary(a, session_id)))

\* end_session computing the average before it adds the session's score
end_session_stale_avg(self, session_id, t) ==
    IF ~Known(self, session_id)
    THEN Call(self, NotFound("end_session", session_id))
    ELSE IF ~self.sessions[session_id].active
    THEN EndedAlready(self, session_id)
    ELSE LET a == es_score(es_avg(es_play_time(es_close(self, session_id, t), session_id),
                                  session_id), session_id)
         IN  Call(a, Returned("end_session", session_id, Summary(a, session_id)))

\* end_session without the addition of the session's score
end_session_no_score(self, session_id, t) ==
    IF ~Known(self, session_id)
    THEN Call(self, NotFound("end_session", session_id))
    ELSE IF ~self.sessions[session_id].active
    THEN EndedAlready(self, session_id)
    ELSE LET a == es_avg(es_play_time(es_close(self, session_id, t), session_id), session_id)
         IN  Call(a, Returned("end_session", session_id, Summary(a, session_id)))

\* end_session without the assignment of end_time
end_session_no_end_time(self, session_id, t) ==
    IF ~Known(self, session_id)
    THEN Call(self, NotFound("end_session", session_id))
    ELSE IF ~self.sessions[session_id].active
    THEN EndedAlready(self, session_id)
    ELSE LET closed == es_close(self, session_id, t)
             a == es_avg(es_score(es_play_time(
                      [closed EXCEPT !.sessions[session_id].end_time = None],
                      session_id), session_id), session_id)
         IN  Call(a, Returned("end_session", session_id, Summary(a, session_id)))

end_session(self, session_id, t) ==
    IF ~Known(self, session_id)
    THEN Call(self, NotFound("end_session", session_id))
    ELSE IF ~self.sessions[session_id].active
    THEN EndedAlready(self, session_id)
    ELSE LET a == es_avg(es_score(es_play_time(es_close(self, session_id, t), session_id),
                                  session_id), session_id)
         IN  Call(a, Returned("end_session", session_id, Summary(a, session_id)))

\* get_session creating the record it does not find (a setdefault lookup)
get_session_setdefault(self, session_id) ==
    LET a == IF Known(self, session_id) THEN self
             ELSE ss_create(self, "", session_id, 0)
    IN  Call(a, Returned("get_session", session_id, a.sessions[session_id]))

\* SessionManager.get_session (components/session_manager.py), on the same store
get_session(self, session_id) ==
    IF ~Known(self, session_id)
    THEN Call(self, NotFound("get_session", session_id))
    ELSE Call(self, Returned("get_session", session_id, self.sessions[session_id]))

(* The components SessionAnalytics was split into                           *)
(* (src/session_module/components).  A SessionManager is the record        *)
(* [sessions, user_sessions]; the EventTracker has no fields and changes   *)
(* the session dictionary it is handed.                                    *)

\* SessionManager.create_session
create_session(self, user_id, session_id, t) ==
    LET sid == SessionIdFor(user_id, session_id, t)
        a == [self EXCEPT !.sessions = Put(@, sid, NewSession(sid, user_id, t))]
        b == IF user_id \notin DOMAIN a.user_sessions
             THEN [a EXCEPT !.user_sessions = Put(@, user_id, <<>>)]
             ELSE a
    IN  [b EXCEPT !.user_sessions[user_id] = Append(@, sid)]

\* SessionManager.end_session of a stored session
manager_end_session(self, session_id, t) ==
    IF ~self.sessions[session_id].active THEN self
    ELSE LET duration == t - self.sessions[session_id].start_time
         IN  [self EXCEPT !.sessions[session_id] =
                 [@ EXCEPT !.end_time = t, !.duration = duration, !.active = FALSE]]

\* EventTracker.log_challenge_start
tracker_log_challenge_start(session, challenge, t) ==
    LET interaction == [type |-> "challenge_start",
                        challenge_id |-> challenge.challenge_id,
                        challenge_type |-> challenge.challenge_type,
                        animal_id |-> challenge.animal_id,
                        start_time |-> t]
        attempts == session.current_challenge_attempts
    IN  [session EXCEPT
            !.interactions = Append(@, interaction),
            !.challenges_attempted = @ + 1,
            !.current_challenge_attempts =
                IF challenge.challenge_id \notin DOMAIN attempts
                THEN Put(attempts, challenge.challenge_id, 0)
                ELSE attempts]

\* EventTracker.log_challenge_complete
tracker_log_challenge_complete(session, challenge_id, is_correct, score_result, t) ==
    LET start == FindStart(session.interactions, challenge_id)
        start_interaction == session.interactions[start]
        timed_session ==
            IF start # 0
            THEN [session EXCEPT !.challenge_times = Append(@,
                     [challenge_id |-> challenge_id,
                      challenge_type |-> start_interaction.challenge_type,
                      duration |-> t - start_interaction.start_time,
                      is_correct |-> is_correct,
                      attempts |-> Get(session.current_challenge_attempts, challenge_id, 1),
                      score |-> ResultScore(score_result),
                      performance |-> ResultPerformance(score_result)])]
            ELSE session
        interaction == [type |-> "challenge_complete",
                        challenge_id |-> challenge_id,
                        is_correct |-> is_correct,
                        score |-> ResultScore(score_result),
                        performance |-> ResultPerformance(score_result)]
    IN  [timed_session EXCEPT !.interactions = Append(@, interaction)]

\* EventTracker.log_interaction
tracker_log_interaction(session, event_type) ==
    [session EXCEPT !.interactions = Append(@, [type |-> event_type, data |-> <<>>])]

\* EventTracker.increment_attempts
increment_attempts(session, challenge_id) ==
    [session EXCEPT !.current_challenge_attempts =
        Put(@, challenge_id, Get(@, challenge_id, 0) + 1)]

ActivityId == "dia-noite-animals"

(* The sessionMetrics of a user's statistics.  avgSessionTime is a         *)
(* fraction; avgScore, round(avg_score, 2), is counted in hundredths.      *)
SessionMetrics(stats) ==
    [totalSessions |-> stats.total_sessions,
     totalPlayTime |-> stats.total_play_time,
     totalChallenges |-> stats.total_challenges,
     totalInteractions |-> stats.total_interactions,
     consecutiveDays |-> stats.consecutive_days,
     avgSessionTime |-> IF stats.total_sessions > 0
                        THEN TrueDiv(stats.total_play_time, stats.total_sessions)
                        ELSE Zero,
     totalScore |-> stats.total_score,
     avgScore |-> PyRound(100 * stats.avg_score.num, stats.avg_score.den),
     bestStreak |-> stats.best_streak]

Exported(user_id, metrics, t) ==
    Returned("export_analytics", NoSessionId,
             [studentId |-> user_id, activityId |-> ActivityId,
              sessionMetrics |-> metrics, timestamp |-> t])

\* an export that reads the statistics as start_session does, creating them
export_analytics_setdefault(self, user_id, t) ==
    LET a == IF user_id \in DOMAIN self.user_stats THEN self
             ELSE [self EXCEPT !.user_stats = Put(@, user_id, NewUserStats)]
    IN  Call(a, Exported(user_id, SessionMetrics(a.user_stats[user_id]), t))

\* SessionAnalytics.export_analytics
export_analytics(self, user_id, t) ==
    IF user_id \notin DOMAIN self.user_stats
    THEN Call(self, Exported(user_id, EmptyMap, t))
    ELSE Call(self, Exported(user_id, SessionMetrics(self.user_stats[user_id]), t))

----------------------------------------------------------------------------
(* TimedDecorator (src/decorators/timed_decorator.py).  self is the record *)
(* of its fields; t is the reading of time.time() the call makes.  The     *)
(* decorated challenge accepts exactly one answer.                         *)

DefaultTimerLimit == 30

Answers == {"right", "wrong"}
CorrectAnswer == "right"

\* TimedDecorator.__init__ with a positive time_limit
NewTimer(time_limit) ==
    [time_limit |-> time_limit, _start_time |-> None, _end_time |-> None]

(* What a timer call returned, or the RuntimeError it raised.  The value   *)
(* returned is in the field of its type: seconds (a float), result (a      *)
(* bool) or level (a str); a method without a return value fills none.     *)
TimerReturned(op) ==
    [op |-> op, status |-> "ok", seconds |-> 0, result |-> FALSE, level |-> ""]
ReturnedSeconds(op, value) == [TimerReturned(op) EXCEPT !.seconds = value]
ReturnedResult(op, value) == [TimerReturned(op) EXCEPT !.result = value]
ReturnedLevel(op, value) == [TimerReturned(op) EXCEPT !.level = value]
TimerRaised(op) == [TimerReturned(op) EXCEPT !.status = "not_started"]

TimerCall(self, r) == [self |-> self, ret |-> r]

\* self._start_time is None
NotStarted(self) == self._start_time = None

start_timer(self, t) ==
    TimerCall([self EXCEPT !._start_time = t, !._end_time = None],
              TimerReturned("start_timer"))

\* the value get_elapsed_time returns for a started timer
Elapsed(self, t) ==
    IF self._end_time # None
    THEN self._end_time - self._start_time
    ELSE t - self._start_time

\* get_elapsed_time that reads a never-started timer as one with no time elapsed
get_elapsed_time_unchecked(self, t) ==
    IF NotStarted(self)
    THEN TimerCall(self, ReturnedSeconds("get_elapsed_time", 0))
    ELSE TimerCall(self, ReturnedSeconds("get_elapsed_time", Elapsed(self, t)))

get_elapsed_time(self, t) ==
    IF NotStarted(self)
    THEN TimerCall(self, TimerRaised("get_elapsed_time"))
    ELSE TimerCall(self, ReturnedSeconds("get_elapsed_time", Elapsed(self, t)))

stop_timer(self, t) ==
    IF NotStarted(self)
    THEN TimerCall(self, TimerRaised("stop_timer"))
    ELSE LET stopped == [self EXCEPT !._end_time = t]
         IN  TimerCall(stopped, ReturnedSeconds("stop_timer", Elapsed(stopped, t)))

\* get_time_remaining without the max(0, ...)
get_time_remaining_unclamped(self, t) ==
    LET elapsed == get_elapsed_time(self, t).ret IN
    IF elapsed.status # "ok"
    THEN TimerCall(self, TimerRaised("get_time_remaining"))
    ELSE TimerCall(self, ReturnedSeconds("get_time_remaining",
                                         self.time_limit - elapsed.seconds))

\* the RuntimeError of get_elapsed_time passes through
get_time_remaining(self, t) ==
    LET elapsed == get_elapsed_time(self, t).ret IN
    IF elapsed.status # "ok"
    THEN TimerCall(self, TimerRaised("get_time_remaining"))
    ELSE LET remaining == self.time_limit - elapsed.seconds
         IN  TimerCall(self, ReturnedSeconds("get_time_remaining",
                                             IF remaining > 0 THEN remaining ELSE 0))

\* the expiry starting after the limit, as the 'timeout' level does
Expired_after_limit(self, t) == Elapsed(self, t) > self.time_limit

\* self.get_elapsed_time() >= self.time_limit
Expired(self, t) == Elapsed(self, t) >= self.time_limit

is_expired(self, t) ==
    IF NotStarted(self)
    THEN TimerCall(self, TimerRaised("is_expired"))
    ELSE TimerCall(self, ReturnedResult("is_expired", Expired(self, t)))

is_timer_running(self) == self._start_time # None /\ self._end_time = None

\* the bonus on the scale of the time-based scoring strategy
TimeBonus_scoring_scale(time_taken, time_limit) ==
    IF time_taken >= time_limit THEN 0
    ELSE IF 4 * time_taken <= time_limit THEN 100
    ELSE IF 2 * time_taken <= time_limit THEN 75
    ELSE IF 4 * time_taken <= 3 * time_limit THEN 50
    ELSE 25

\* the bonus for time_taken; time_taken / time_limit is compared with the
\* cut points as a fraction
TimeBonus(time_taken, time_limit) ==
    IF time_taken >= time_limit THEN 0
    ELSE IF 4 * time_taken <= time_limit THEN 100
    ELSE IF 2 * time_taken <= time_limit THEN 50
    ELSE IF 4 * time_taken <= 3 * time_limit THEN 25
    ELSE 0

calculate_time_bonus(self, time_taken, t) ==
    IF time_taken = None /\ NotStarted(self)
    THEN TimerCall(self, TimerRaised("calculate_time_bonus"))
    ELSE LET taken == IF time_taken = None THEN Elapsed(self, t) ELSE time_taken
         IN  TimerCall(self, ReturnedSeconds("calculate_time_bonus",
                                           TimeBonus(taken, self.time_limit)))

\* the level with the timeout starting at the limit itself
TimePerformance_timeout_at_limit(elapsed, time_limit) ==
    IF elapsed >= time_limit THEN "timeout"
    ELSE IF 4 * elapsed <= time_limit THEN "excellent"
    ELSE IF 2 * elapsed <= time_limit THEN "good"
    ELSE IF 4 * elapsed <= 3 * time_limit THEN "fair"
    ELSE "slow"

TimePerformance(elapsed, time_limit) ==
    IF elapsed > time_limit THEN "timeout"
    ELSE IF 4 * elapsed <= time_limit THEN "excellent"
    ELSE IF 2 * elapsed <= time_limit THEN "good"
    ELSE IF 4 * elapsed <= 3 * time_limit THEN "fair"
    ELSE "slow"

get_time_performance_level(self, t) ==
    IF NotStarted(self)
    THEN TimerCall(self, ReturnedLevel("get_time_performance_level", "not_started"))
    ELSE TimerCall(self, ReturnedLevel("get_time_performance_level",
                                       TimePerformance(Elapsed(self, t), self.time_limit)))

\* self._challenge.validate_answer(answer)
challenge_validate_answer(answer) == answer = CorrectAnswer

\* validate_answer that delegates without looking at the timer's expiry
validate_answer_no_expiry(self, answer, t) ==
    LET stopped == IF is_timer_running(self) THEN stop_timer(self, t).self ELSE self
    IN  IF NotStarted(stopped)
        THEN TimerCall(stopped, TimerRaised("validate_answer"))
        ELSE TimerCall(stopped, ReturnedResult("validate_answer",
                                              challenge_validate_answer(answer)))

validate_answer(self, answer, t) ==
    LET stopped == IF is_timer_running(self) THEN stop_timer(self, t).self ELSE self
    IN  IF NotStarted(stopped)
        THEN TimerCall(stopped, TimerRaised("validate_answer"))
        ELSE IF Expired(stopped, t)
        THEN TimerCall(stopped, ReturnedResult("validate_answer", FALSE))
        ELSE TimerCall(stopped, ReturnedResult("validate_answer",
                                              challenge_validate_answer(answer)))

reset_timer(self) ==
    TimerCall([self EXCEPT !._start_time = None, !._end_time = None],
              TimerReturned("reset_timer"))

----------------------------------------------------------------------------
(* Spec: whole method calls, one at a time *)

sessions == session_analytics.sessions
user_sessions == session_analytics.user_sessions
user_stats == session_analytics.user_stats

Max(a, b) == IF a >= b THEN a ELSE b

\* ids a caller may name: the stored ones and the custom ones
IdArgs == DOMAIN sessions \cup CustomIds

\* a set as a list, in some fixed order
RECURSIVE ListOf(_)
ListOf(set) ==
    IF set = {} THEN <<>>
    ELSE LET x == CHOOSE y \in set : TRUE IN <<x>> \o ListOf(set \ {x})

SessionList == ListOf(DOMAIN sessions)
UserList == ListOf(DOMAIN user_sessions)

IdleWorkers == [w \in Workers |-> "idle"]

\* the session a worker thread's requests are about
WorkerSession(w) == "s_" \o w

\* a thread's frame: the arguments of its call, its locals, the calls it has finished
NoFrames ==
    [w \in Workers |->
        [user_id |-> "", session_id |-> WorkerSession(w), is_correct |-> FALSE,
         flag |-> FALSE, ref |-> 0, tmp |-> 0, calls |-> 0]]

Init ==
    /\ session_analytics = NewAnalytics
    /\ stats_obj = [u \in Users |-> 0]
    /\ now = 0
    /\ ret = Returned("__init__", NoSessionId, <<>>)
    /\ pc = IdleWorkers
    /\ frame = NoFrames
    /\ peak_streak = [u \in Users |-> 0]
    /\ timed = NewTimer(DefaultTimerLimit)
    /\ timed_ret = TimerReturned("__init__")
    /\ score_calculator = NewCalculator(DefaultStrategy)
    /\ scoring = NoScoring(DefaultContext)
    /\ session_manager = NewManager

\* interactions stored in all sessions, and sessions started by all users
Logged == SumSeq([i \in 1..Len(SessionList) |-> Len(sessions[SessionList[i]].interactions)])
Started == SumSeq([i \in 1..Len(UserList) |-> Len(user_sessions[UserList[i]])])

\* room for one more interaction (the model's bound); a call that raises needs none
Room(session_id, max) == session_id \in DOMAIN sessions => Logged < max

\* the clock moves on by one tick, up to the model's horizon
Advance(max) ==
    /\ now < max
    /\ now' = now + 1
    /\ UNCHANGED <<session_analytics, stats_obj, ret, pc, frame, peak_streak, timed, timed_ret, score_calculator, scoring, session_manager>>

Tick == Advance(MaxTime)

(* The calls.  Each action takes the sets its arguments are drawn from:    *)
(* Spec calls with the ids of stored sessions, SpecLookup also with ids    *)
(* that name no session.                                                   *)

StartSession(users, id_args, max) ==
    \E user_id \in users, session_id \in id_args :
        LET sid == SessionIdFor(user_id, session_id, now) IN
        /\ Started < max
        /\ session_analytics' = start_session(session_analytics, user_id, session_id, now)
        /\ stats_obj' = IF user_id \in DOMAIN user_stats THEN stats_obj
                        ELSE [stats_obj EXCEPT ![user_id] = @ + 1]
        /\ ret' = Returned("start_session", sid, <<>>)
        /\ UNCHANGED <<now, pc, frame, peak_streak, timed, timed_ret, score_calculator, scoring, session_manager>>

LogChallengeStart(ids, challenges, max) ==
    \E session_id \in ids, challenge \in challenges :
        LET r == log_challenge_start(session_analytics, session_id, challenge, now) IN
        /\ Room(session_id, max)
        /\ session_analytics' = r.self
        /\ ret' = r.ret
        /\ UNCHANGED <<stats_obj, now, pc, frame, peak_streak, timed, timed_ret, score_calculator, scoring, session_manager>>

LogChallengeComplete(ids, challenges, limits, max) ==
    \E session_id \in ids, challenge \in challenges, is_correct \in BOOLEAN,
       difficulty \in DifficultyArgs, time_limit \in limits :
        LET r == log_challenge_complete(session_analytics, session_id,
                                        challenge.challenge_id,
                                        is_correct, difficulty, time_limit, now)
        IN
        /\ Room(session_id, max)
        /\ session_analytics' = r.self
        /\ ret' = r.ret
        /\ peak_streak' =
               IF session_id \in DOMAIN sessions
               THEN [peak_streak EXCEPT ![sessions[session_id].user_id] =
                        Max(@, r.self.sessions[session_id].current_streak)]
               ELSE peak_streak
        /\ UNCHANGED <<stats_obj, now, pc, frame, timed, timed_ret, score_calculator, scoring, session_manager>>

LogInteraction(ids, max) ==
    \E session_id \in ids, event_type \in EventTypes :
        LET r == log_interaction(session_analytics, session_id, event_type, now) IN
        /\ Room(session_id, max)
        /\ session_analytics' = r.self
        /\ ret' = r.ret
        /\ UNCHANGED <<stats_obj, now, pc, frame, peak_streak, timed, timed_ret, score_calculator, scoring, session_manager>>

EndSession(ids) ==
    \E session_id \in ids :
        LET r == end_session(session_analytics, session_id, now) IN
        /\ session_analytics' = r.self
        /\ ret' = r.ret
        /\ UNCHANGED <<stats_obj, now, pc, frame, peak_streak, timed, timed_ret, score_calculator, scoring, session_manager>>

GetSessionSummary(ids) ==
    \E session_id \in ids :
        LET r == get_session_summary(session_analytics, session_id) IN
        /\ session_analytics' = r.self
        /\ ret' = r.ret
        /\ UNCHANGED <<stats_obj, now, pc, frame, peak_streak, timed, timed_ret, score_calculator, scoring, session_manager>>

GetSession(ids) ==
    \E session_id \in ids :
        LET r == get_session(session_analytics, session_id) IN
        /\ session_analytics' = r.self
        /\ ret' = r.ret
        /\ UNCHANGED <<stats_obj, now, pc, frame, peak_streak, timed, timed_ret, score_calculator, scoring, session_manager>>

Next ==
    \/ Tick
    \/ StartSession(Users, {NoSessionId}, MaxCalls)
    \/ LogChallengeStart(DOMAIN sessions, Challenges, MaxInteractions)
    \/ LogChallengeComplete(DOMAIN sessions, Challenges, TimeLimitArgs, MaxInteractions)
    \/ LogInteraction(DOMAIN sessions, MaxInteractions)
    \/ EndSession(DOMAIN sessions)

Spec == Init /\ [][Next]_vars

ExportAnalytics(users) ==
    \E user_id \in users :
        LET r == export_analytics(session_analytics, user_id, now) IN
        /\ session_analytics' = r.self
        /\ ret' = r.ret
        /\ UNCHANGED <<stats_obj, now, pc, frame, peak_streak, timed, timed_ret,
                       score_calculator, scoring, session_manager>>

(* SpecLookup: one user and one challenge, sessions also started under a   *)
(* caller's id, every call also made with an id that names no session, and *)
(* the two lookups.                                                        *)

OneUser == {"u1"}
OneChallenge == {ch \in Challenges : ch.challenge_id = "c1"}
NoLimit == {None}

NextLookup ==
    \/ Tick
    \/ StartSession(OneUser, SessionIdArgs, MaxCalls)
    \/ LogChallengeStart(IdArgs, OneChallenge, MaxInteractions)
    \/ LogChallengeComplete(IdArgs, OneChallenge, NoLimit, MaxInteractions)
    \/ LogInteraction(IdArgs, MaxInteractions)
    \/ EndSession(IdArgs)
    \/ GetSessionSummary(IdArgs)
    \/ GetSession(IdArgs)

SpecLookup == Init /\ [][NextLookup]_vars

(* SpecRound: one session of one user, with room for a longer run of       *)
(* challenge starts and completions.                                       *)

MaxRound == 4

NextRound ==
    \/ Tick
    \/ StartSession(OneUser, {NoSessionId}, 1)
    \/ LogChallengeStart(DOMAIN sessions, Challenges, MaxRound)
    \/ LogChallengeComplete(DOMAIN sessions, Challenges, TimeLimitArgs, MaxRound)
    \/ LogInteraction(DOMAIN sessions, MaxRound)
    \/ EndSession(DOMAIN sessions)

SpecRound == Init /\ [][NextRound]_vars

(* SpecStreak: two sessions of one user answering one challenge, with room *)
(* for streaks that grow and break in both.                                *)

MaxStreak == 5

NextStreak ==
    \/ Tick
    \/ StartSession(OneUser, {NoSessionId}, MaxCalls)
    \/ LogChallengeStart(DOMAIN sessions, OneChallenge, MaxStreak)
    \/ LogChallengeComplete(DOMAIN sessions, OneChallenge, NoLimit, MaxStreak)

SpecStreak == Init /\ [][NextStreak]_vars

(* SpecDays: one user starting sessions over several calendar days, on     *)
(* the same day, on the next day and after days without a session.         *)

MaxDayTime == 7
MaxDayCalls == 4

NextDays ==
    \/ Advance(MaxDayTime)
    \/ StartSession(OneUser, {NoSessionId}, MaxDayCalls)

SpecDays == Init /\ [][NextDays]_vars

(* SpecTimer: one TimedDecorator, its methods called in any order while    *)
(* the clock moves on.                                                     *)

MaxTimerTime == 6
MaxTimeTaken == 5

TimerLimits == {4, 5}
TimeTakenArgs == {None} \cup (0 .. MaxTimeTaken)

InitTimer ==
    /\ session_analytics = NewAnalytics
    /\ stats_obj = [u \in Users |-> 0]
    /\ now = 0
    /\ ret = Returned("__init__", NoSessionId, <<>>)
    /\ pc = IdleWorkers
    /\ frame = NoFrames
    /\ peak_streak = [u \in Users |-> 0]
    /\ timed \in {NewTimer(time_limit) : time_limit \in TimerLimits}
    /\ timed_ret = TimerReturned("__init__")
    /\ score_calculator = NewCalculator(DefaultStrategy)
    /\ scoring = NoScoring(DefaultContext)
    /\ session_manager = NewManager

\* a call on the TimedDecorator: its fields and its outcome after the call
TimerStep(r) ==
    /\ timed' = r.self
    /\ timed_ret' = r.ret
    /\ UNCHANGED <<session_analytics, stats_obj, now, ret, pc, frame, peak_streak, score_calculator, scoring, session_manager>>

StartTimer == TimerStep(start_timer(timed, now))
StopTimer == TimerStep(stop_timer(timed, now))
GetElapsedTime == TimerStep(get_elapsed_time(timed, now))
GetTimeRemaining == TimerStep(get_time_remaining(timed, now))
IsExpired == TimerStep(is_expired(timed, now))
CalculateTimeBonus ==
    \E time_taken \in TimeTakenArgs : TimerStep(calculate_time_bonus(timed, time_taken, now))
GetTimePerformanceLevel == TimerStep(get_time_performance_level(timed, now))
ValidateAnswer == \E answer \in Answers : TimerStep(validate_answer(timed, answer, now))
ResetTimer == TimerStep(reset_timer(timed))

NextTimer ==
    \/ Advance(MaxTimerTime)
    \/ StartTimer
    \/ StopTimer
    \/ GetElapsedTime
    \/ GetTimeRemaining
    \/ IsExpired
    \/ CalculateTimeBonus
    \/ GetTimePerformanceLevel
    \/ ValidateAnswer
    \/ ResetTimer

SpecTimer == InitTimer /\ [][NextTimer]_vars

(* SpecScore: one ScoreCalculator and one scoring context out of a bounded *)
(* set; the strategy is exchanged and the calculator is called with the    *)
(* context.                                                                *)

MaxTimeScored == 5
MaxAttempts == 4
MaxDifficulty == 6

ScoreLimits == {4, 5}
ScoreStreaks == {0, 1, 2, 4, 6, 10}

Contexts ==
    [time_taken : 0 .. MaxTimeScored, time_limit : ScoreLimits, is_correct : BOOLEAN,
     attempts : 1 .. MaxAttempts, difficulty : 1 .. MaxDifficulty, streak : ScoreStreaks]

SimpleNames == {"time_based", "accuracy_based", "streak_based", "difficulty_based"}

\* a composite of two strategies at equal weights
TimeAndDifficulty ==
    [composite |-> TRUE,
     name |-> "composite(time_based+difficulty_based)",
     parts |-> << [strategy |-> "time_based", weight |-> 50],
                  [strategy |-> "difficulty_based", weight |-> 50] >>]

Strategies == {Simple(name) : name \in SimpleNames} \cup {DefaultStrategy, TimeAndDifficulty}

InitScore ==
    /\ session_analytics = NewAnalytics
    /\ stats_obj = [u \in Users |-> 0]
    /\ now = 0
    /\ ret = Returned("__init__", NoSessionId, <<>>)
    /\ pc = IdleWorkers
    /\ frame = NoFrames
    /\ peak_streak = [u \in Users |-> 0]
    /\ timed = NewTimer(DefaultTimerLimit)
    /\ timed_ret = TimerReturned("__init__")
    /\ score_calculator = NewCalculator(Simple("time_based"))
    /\ scoring \in {NoScoring(context) : context \in Contexts}
    /\ session_manager = NewManager

\* a step of the ScoreCalculator and its caller
ScoreStep(calculator, result) ==
    /\ score_calculator' = calculator
    /\ scoring' = result
    /\ UNCHANGED <<session_analytics, stats_obj, now, ret, pc, frame, peak_streak,
                   timed, timed_ret, session_manager>>

SetStrategy ==
    \E strategy \in Strategies :
        ScoreStep(set_strategy(score_calculator, strategy), NoScoring(scoring.context))

(* The (strategy, weight) lists a caller builds a composite from: total   *)
(* weights 0.90, 0.98, 0.99, 1.00, 1.01 and 1.02.  For these weights the   *)
(* float products and sums of the code round as the exact ones do.         *)
PartLists ==
    { DefaultStrategy.parts,
      TimeAndDifficulty.parts,
      << [strategy |-> "time_based", weight |-> 49],
         [strategy |-> "difficulty_based", weight |-> 50] >>,
      << [strategy |-> "time_based", weight |-> 49],
         [strategy |-> "difficulty_based", weight |-> 49] >>,
      << [strategy |-> "time_based", weight |-> 51],
         [strategy |-> "difficulty_based", weight |-> 50] >>,
      << [strategy |-> "time_based", weight |-> 150],
         [strategy |-> "difficulty_based", weight |-> -50] >>,
      << [strategy |-> "time_based", weight |-> 50],
         [strategy |-> "difficulty_based", weight |-> 40] >>,
      << [strategy |-> "time_based", weight |-> 51],
         [strategy |-> "difficulty_based", weight |-> 51] >> }

\* calculator.set_strategy(CompositeScoringStrategy(parts)): an error raised
\* by the constructor leaves the calculator as it was
SetComposite ==
    \E parts \in PartLists :
        LET made == CompositeScoringStrategy(parts)
            tried == [NoScoring(scoring.context) EXCEPT !.op = "CompositeScoringStrategy",
                                                         !.parts = parts,
                                                         !.raised = made.raised]
        IN  IF made.raised # "" THEN ScoreStep(score_calculator, tried)
            ELSE ScoreStep(set_strategy(score_calculator, made.strategy), tried)

Calculate == ScoreStep(score_calculator, calculate(score_calculator, scoring.context))

GetPerformanceLevel ==
    ScoreStep(score_calculator, calculator_performance_level(score_calculator, scoring.context))

GetDetailedResult ==
    ScoreStep(score_calculator, calculator_detailed_result(score_calculator, scoring.context))

NextScore ==
    \/ SetStrategy
    \/ SetComposite
    \/ Calculate
    \/ GetPerformanceLevel
    \/ GetDetailedResult

SpecScore == InitScore /\ [][NextScore]_vars

(* SpecExport: the export view asked for users with and without sessions, *)
(* before, during and after their sessions.                                *)

NextExport ==
    \/ Tick
    \/ StartSession(Users, {NoSessionId}, MaxCalls)
    \/ LogChallengeStart(DOMAIN sessions, OneChallenge, MaxInteractions)
    \/ LogChallengeComplete(DOMAIN sessions, OneChallenge, NoLimit, MaxInteractions)
    \/ EndSession(DOMAIN sessions)
    \/ ExportAnalytics(Users)

SpecExport == Init /\ [][NextExport]_vars

(* SpecTracker: a SessionManager and an EventTracker called by a client    *)
(* of the components, one session of one user; the attempt counter is      *)
(* raised by the client's increment_attempts calls.                        *)

MaxTracked == 4
MaxIncrements == 2

managed == session_manager.sessions

\* the score results a client hands to EventTracker.log_challenge_complete
ScoreResults == {EmptyResult, get_detailed_result(DefaultStrategy, DefaultContext)}

Tracked ==
    LET ids == ListOf(DOMAIN managed)
    IN  SumSeq([i \in 1..Len(ids) |-> Len(managed[ids[i]].interactions)])

Created ==
    LET users == ListOf(DOMAIN session_manager.user_sessions)
    IN  SumSeq([i \in 1..Len(users) |-> Len(session_manager.user_sessions[users[i]])])

\* a call on the components alone
ManagerStep(op, session_id, manager) ==
    /\ session_manager' = manager
    /\ ret' = Returned(op, session_id, <<>>)
    /\ UNCHANGED <<session_analytics, stats_obj, now, pc, frame, peak_streak, timed,
                   timed_ret, score_calculator, scoring>>

\* the manager after the tracker has changed the session it was handed
Tracking(session_id, session) == [session_manager EXCEPT !.sessions[session_id] = session]

CreateSession(users, id_args, max) ==
    \E user_id \in users, session_id \in id_args :
        /\ Created < max
        /\ ManagerStep("create_session", SessionIdFor(user_id, session_id, now),
                       create_session(session_manager, user_id, session_id, now))

TrackChallengeStart(challenges, max) ==
    \E session_id \in DOMAIN managed, challenge \in challenges :
        /\ Tracked < max
        /\ ManagerStep("log_challenge_start", session_id,
                       Tracking(session_id,
                           tracker_log_challenge_start(managed[session_id], challenge, now)))

TrackChallengeComplete(challenges, max) ==
    \E session_id \in DOMAIN managed, challenge \in challenges, is_correct \in BOOLEAN,
       score_result \in ScoreResults :
        /\ Tracked < max
        /\ ManagerStep("log_challenge_complete", session_id,
                       Tracking(session_id,
                           tracker_log_challenge_complete(managed[session_id],
                               challenge.challenge_id, is_correct, score_result, now)))

TrackInteraction(max) ==
    \E session_id \in DOMAIN managed, event_type \in EventTypes :
        /\ Tracked < max
        /\ ManagerStep("log_interaction", session_id,
                       Tracking(session_id,
                           tracker_log_interaction(managed[session_id], event_type)))

IncrementAttempts(challenges, max) ==
    \E session_id \in DOMAIN managed, challenge \in challenges :
        /\ Get(managed[session_id].current_challenge_attempts, challenge.challenge_id, 0) < max
        /\ ManagerStep("increment_attempts", session_id,
                       Tracking(session_id,
                           increment_attempts(managed[session_id], challenge.challenge_id)))

ManagerEndSession ==
    \E session_id \in DOMAIN managed :
        ManagerStep("end_session", session_id,
                    manager_end_session(session_manager, session_id, now))

NextTracker ==
    \/ Tick
    \/ CreateSession(OneUser, {NoSessionId}, 1)
    \/ TrackChallengeStart(OneChallenge, MaxTracked)
    \/ TrackChallengeComplete(OneChallenge, MaxTracked)
    \/ TrackInteraction(MaxTracked)
    \/ IncrementAttempts(OneChallenge, MaxIncrements)
    \/ ManagerEndSession

SpecTracker == Init /\ [][NextTracker]_vars

(* SpecComponents: every call made on the SessionAnalytics and, with the   *)
(* same arguments, on a SessionManager with an EventTracker: create for    *)
(* start_session, the tracker's methods on the session the manager returns *)
(* for the logging calls, handed the score result SessionAnalytics         *)
(* computed.  A call with an id the manager does not know raises in        *)
(* SessionManager.get_session and changes nothing.                         *)

\* the components after the client has run a tracker method on a session
OnManaged(session_id, session) ==
    IF session_id \in DOMAIN managed THEN Tracking(session_id, session) ELSE session_manager

\* a call on both
BothStep(analytics, manager) ==
    /\ session_analytics' = analytics.self
    /\ ret' = analytics.ret
    /\ session_manager' = manager
    /\ UNCHANGED <<stats_obj, now, pc, frame, peak_streak, timed, timed_ret,
                   score_calculator, scoring>>

BothCreate(users, id_args, max) ==
    \E user_id \in users, session_id \in id_args :
        /\ Started < max
        /\ BothStep(Call(start_session(session_analytics, user_id, session_id, now),
                         Returned("start_session",
                                  SessionIdFor(user_id, session_id, now), <<>>)),
                    create_session(session_manager, user_id, session_id, now))

BothChallengeStart(ids, challenges, max) ==
    \E session_id \in ids, challenge \in challenges :
        /\ Room(session_id, max)
        /\ BothStep(log_challenge_start(session_analytics, session_id, challenge, now),
                    OnManaged(session_id,
                        tracker_log_challenge_start(managed[session_id], challenge, now)))

BothChallengeComplete(ids, challenges, limits, max) ==
    \E session_id \in ids, challenge \in challenges, is_correct \in BOOLEAN,
       difficulty \in DifficultyArgs, time_limit \in limits :
        LET r == log_challenge_complete(session_analytics, session_id,
                                        challenge.challenge_id,
                                        is_correct, difficulty, time_limit, now)
        IN
        /\ Room(session_id, max)
        /\ BothStep(r, OnManaged(session_id,
                        tracker_log_challenge_complete(managed[session_id],
                            challenge.challenge_id, is_correct, r.ret.value, now)))

BothInteraction(ids, max) ==
    \E session_id \in ids, event_type \in EventTypes :
        /\ Room(session_id, max)
        /\ BothStep(log_interaction(session_analytics, session_id, event_type, now),
                    OnManaged(session_id,
                        tracker_log_interaction(managed[session_id], event_type)))

BothEnd(ids) ==
    \E session_id \in ids :
        BothStep(end_session(session_analytics, session_id, now),
                 IF session_id \in DOMAIN managed
                 THEN manager_end_session(session_manager, session_id, now)
                 ELSE session_manager)

NextComponents ==
    \/ Tick
    \/ BothCreate(Users, SessionIdArgs, MaxCalls)
    \/ BothChallengeStart(IdArgs, OneChallenge, MaxInteractions)
    \/ BothChallengeComplete(IdArgs, OneChallenge, NoLimit, MaxInteractions)
    \/ BothInteraction(IdArgs, MaxInteractions)
    \/ BothEnd(IdArgs)

SpecComponents == Init /\ [][NextComponents]_vars

(* SpecSwap: one user's sessions, with the strategy of the SessionAnalytics *)
(* calculator exchanged between completions.                               *)

MaxSwap == 4
MaxSwapCalls == 1

SwapStrategies == {DefaultStrategy, TimeAndDifficulty, Simple("accuracy_based")}

\* analytics.score_calculator.set_strategy(strategy)
SwapStrategy ==
    \E strategy \in SwapStrategies :
        /\ strategy # score_calculator._strategy
        /\ score_calculator' = set_strategy(score_calculator, strategy)
        /\ UNCHANGED <<session_analytics, stats_obj, now, ret, pc, frame, peak_streak,
                       timed, timed_ret, scoring, session_manager>>

NextSwap ==
    \/ Tick
    \/ StartSession(OneUser, {NoSessionId}, MaxSwapCalls)
    \/ LogChallengeStart(DOMAIN sessions, OneChallenge, MaxSwap)
    \/ LogChallengeComplete(DOMAIN sessions, OneChallenge, NoLimit, MaxSwap)
    \/ EndSession(DOMAIN sessions)
    \/ SwapStrategy

SpecSwap == Init /\ [][NextSwap]_vars

----------------------------------------------------------------------------
(* Request-handling threads.  The code takes no lock, so a thread switch   *)
(* can fall between any two accesses of a shared dictionary: every read    *)
(* and every write of user_sessions / user_stats is a step of its own.     *)
(* A statement  stats[k] += 1  reads the dict object stored for the user   *)
(* and the entry, then writes the entry of that same object; when the      *)
(* object has been replaced in between, the write lands on the replaced    *)
(* object and is not seen in user_stats.                                   *)

AllIdle == \A w \in Workers : pc[w] \in {"idle", "raised"}

Goto(w, label) == pc' = [pc EXCEPT ![w] = label]

\* ---- start_session(user_id, WorkerSession(w)), one call per thread

StartCreate(w) ==
    /\ pc[w] = "idle"
    /\ frame[w].calls = 0
    /\ \E user_id \in Users :
        /\ frame' = [frame EXCEPT ![w].user_id = user_id]
        /\ session_analytics' = ss_create(session_analytics, user_id, frame[w].session_id, now)
    /\ Goto(w, "ss_check")
    /\ UNCHANGED <<stats_obj, now, ret, peak_streak, timed, timed_ret, score_calculator, scoring, session_manager>>

\* if user_id not in self.user_sessions
StartCheck(w) ==
    /\ pc[w] = "ss_check"
    /\ frame' = [frame EXCEPT ![w].flag = frame[w].user_id \notin DOMAIN user_sessions]
    /\ Goto(w, IF frame[w].user_id \notin DOMAIN user_sessions
               THEN "ss_init_list" ELSE "ss_append")
    /\ UNCHANGED <<session_analytics, stats_obj, now, ret, peak_streak, timed, timed_ret, score_calculator, scoring, session_manager>>

StartInitList(w) ==
    /\ pc[w] = "ss_init_list"
    /\ session_analytics' = ss_init_list(session_analytics, frame[w].user_id)
    /\ Goto(w, "ss_init_stats")
    /\ UNCHANGED <<stats_obj, now, ret, frame, peak_streak, timed, timed_ret, score_calculator, scoring, session_manager>>

StartInitStats(w) ==
    /\ pc[w] = "ss_init_stats"
    /\ session_analytics' = ss_init_stats(session_analytics, frame[w].user_id)
    /\ stats_obj' = [stats_obj EXCEPT ![frame[w].user_id] = @ + 1]
    /\ Goto(w, "ss_append")
    /\ UNCHANGED <<now, ret, frame, peak_streak, timed, timed_ret, score_calculator, scoring, session_manager>>

StartAppend(w) ==
    /\ pc[w] = "ss_append"
    /\ session_analytics' = ss_append(session_analytics, frame[w].user_id, frame[w].session_id)
    /\ Goto(w, "ss_read")
    /\ UNCHANGED <<stats_obj, now, ret, frame, peak_streak, timed, timed_ret, score_calculator, scoring, session_manager>>

\* the read of  self.user_stats[user_id]['total_sessions'] += 1 ; KeyError when
\* another thread has created the list but not yet the stats
StartReadCount(w) ==
    /\ pc[w] = "ss_read"
    /\ IF frame[w].user_id \in DOMAIN user_stats
       THEN /\ frame' = [frame EXCEPT
                            ![w].ref = stats_obj[frame[w].user_id],
                            ![w].tmp = user_stats[frame[w].user_id].total_sessions]
            /\ Goto(w, "ss_write")
       ELSE /\ frame' = frame
            /\ Goto(w, "raised")
    /\ UNCHANGED <<session_analytics, stats_obj, now, ret, peak_streak, timed, timed_ret, score_calculator, scoring, session_manager>>

\* the write of  self.user_stats[user_id]['total_sessions'] += 1
StartWriteCount(w) ==
    /\ pc[w] = "ss_write"
    /\ session_analytics' =
           IF stats_obj[frame[w].user_id] = frame[w].ref
           THEN SetStat(session_analytics, frame[w].user_id, "total_sessions", frame[w].tmp + 1)
           ELSE session_analytics
    /\ Goto(w, "ss_days")
    /\ UNCHANGED <<stats_obj, now, ret, frame, peak_streak, timed, timed_ret, score_calculator, scoring, session_manager>>

StartDays(w) ==
    /\ pc[w] = "ss_days"
    /\ session_analytics' = _update_consecutive_days(session_analytics, frame[w].user_id, now)
    /\ frame' = [frame EXCEPT ![w].calls = @ + 1]
    /\ Goto(w, "idle")
    /\ UNCHANGED <<stats_obj, now, ret, peak_streak, timed, timed_ret, score_calculator, scoring, session_manager>>

NextStart ==
    \E w \in Workers :
        \/ StartCreate(w)
        \/ StartCheck(w)
        \/ StartInitList(w)
        \/ StartInitStats(w)
        \/ StartAppend(w)
        \/ StartReadCount(w)
        \/ StartWriteCount(w)
        \/ StartDays(w)

SpecStart == Init /\ [][NextStart]_vars

\* ---- log_challenge_complete(WorkerSession(w), "c1", is_correct), up to MaxCalls per thread

ConcUser == "u1"
ConcChallenge == CHOOSE ch \in Challenges : ch.challenge_id = "c1"

\* the store after every thread's session was started and its challenge begun
RECURSIVE Prepared(_, _)
Prepared(self, workers) ==
    IF workers = {} THEN self
    ELSE LET w == CHOOSE x \in workers : TRUE
             a == start_session(self, ConcUser, WorkerSession(w), 0)
             b == log_challenge_start(a, WorkerSession(w), ConcChallenge, 0).self
         IN  Prepared(b, workers \ {w})

InitComplete ==
    /\ session_analytics = Prepared(NewAnalytics, Workers)
    /\ stats_obj = [u \in Users |-> IF u = ConcUser THEN 1 ELSE 0]
    /\ now = 0
    /\ ret = Returned("log_challenge_start", NoSessionId, <<>>)
    /\ pc = IdleWorkers
    /\ frame = [w \in Workers |-> [NoFrames[w] EXCEPT !.user_id = ConcUser]]
    /\ peak_streak = [u \in Users |-> 0]
    /\ timed = NewTimer(DefaultTimerLimit)
    /\ timed_ret = TimerReturned("__init__")
    /\ score_calculator = NewCalculator(DefaultStrategy)
    /\ scoring = NoScoring(DefaultContext)
    /\ session_manager = NewManager

\* lines 163-232: the work on the thread's own session record
CompleteSession(w) ==
    /\ pc[w] = "idle"
    /\ frame[w].calls < MaxCalls
    /\ \E is_correct \in BOOLEAN :
        LET r == lcc_session(session_analytics, frame[w].session_id,
                             ConcChallenge.challenge_id, is_correct,
                             DefaultDifficulty, None, now)
        IN  /\ session_analytics' = r.self
            /\ frame' = [frame EXCEPT ![w].is_correct = is_correct]
            /\ peak_streak' = [peak_streak EXCEPT ![frame[w].user_id] =
                                  Max(@, r.self.sessions[frame[w].session_id].current_streak)]
    /\ Goto(w, "lcc_read")
    /\ UNCHANGED <<stats_obj, now, ret, timed, timed_ret, score_calculator, scoring, session_manager>>

\* the read of  self.user_stats[user_id]['total_interactions'] += 1
CompleteReadCount(w) ==
    /\ pc[w] = "lcc_read"
    /\ frame' = [frame EXCEPT ![w].tmp = user_stats[frame[w].user_id].total_interactions]
    /\ Goto(w, "lcc_write")
    /\ UNCHANGED <<session_analytics, stats_obj, now, ret, peak_streak, timed, timed_ret, score_calculator, scoring, session_manager>>

\* the write of  self.user_stats[user_id]['total_interactions'] += 1
CompleteWriteCount(w) ==
    /\ pc[w] = "lcc_write"
    /\ session_analytics' =
           SetStat(session_analytics, frame[w].user_id, "total_interactions", frame[w].tmp + 1)
    /\ Goto(w, "lcc_compare")
    /\ UNCHANGED <<stats_obj, now, ret, frame, peak_streak, timed, timed_ret, score_calculator, scoring, session_manager>>

\* line 239: the comparison
CompleteCompare(w) ==
    /\ pc[w] = "lcc_compare"
    /\ IF BeatsBest(session_analytics, frame[w].session_id)
       THEN /\ frame' = [frame EXCEPT ![w].flag = TRUE]
            /\ Goto(w, "lcc_set")
       ELSE /\ frame' = [frame EXCEPT ![w].flag = FALSE, ![w].calls = @ + 1]
            /\ Goto(w, "idle")
    /\ UNCHANGED <<session_analytics, stats_obj, now, ret, peak_streak, timed, timed_ret, score_calculator, scoring, session_manager>>

\* line 240: the assignment
CompleteSetBest(w) ==
    /\ pc[w] = "lcc_set"
    /\ session_analytics' = SetBest(session_analytics, frame[w].session_id)
    /\ frame' = [frame EXCEPT ![w].calls = @ + 1]
    /\ Goto(w, "idle")
    /\ UNCHANGED <<stats_obj, now, ret, peak_streak, timed, timed_ret, score_calculator, scoring, session_manager>>

NextComplete ==
    \E w \in Workers :
        \/ CompleteSession(w)
        \/ CompleteReadCount(w)
        \/ CompleteWriteCount(w)
        \/ CompleteCompare(w)
        \/ CompleteSetBest(w)

SpecComplete == InitComplete /\ [][NextComplete]_vars

----------------------------------------------------------------------------
(* Claims *)

RECURSIVE SumOver(_, _)
\* the sum of f[x] over the elements x of set
SumOver(set, f) ==
    IF set = {} THEN 0
    ELSE LET x == CHOOSE y \in set : TRUE IN f[x] + SumOver(set \ {x}, f)

\* calls of log_challenge_complete the threads have finished
CallsDone == SumOver(Workers, [w \in Workers |-> frame[w].calls])

\* C1: N concurrent log_challenge_complete calls of one user, each on its own
\* session, raise the user's total_interactions by exactly N (no increment is
\* lost).  Before the calls the counter holds one challenge_start per session.
C1_NoLostIncrement ==
    AllIdle =>
        user_stats[ConcUser].total_interactions = Cardinality(Workers) + CallsDone

\* C2: after concurrent completions on different sessions of one user, the
\* user's best_streak is the highest current_streak any of the sessions held.
C2_BestStreakIsPeak ==
    AllIdle => user_stats[ConcUser].best_streak = peak_streak[ConcUser]

\* the threads that called start_session for the user, all calls over
StartedFor(u) == {w \in Workers : frame[w].user_id = u}
AllReturned == \A w \in Workers : pc[w] = "raised" \/ (pc[w] = "idle" /\ frame[w].calls = 1)

\* C3: when concurrent start_session calls for a user not seen before have all
\* ended, user_sessions[user] holds the session id of each call and
\* total_sessions counts them (and no call has raised).
C3_LazyCreateOnce ==
    AllReturned =>
        \A u \in Users :
            StartedFor(u) # {} =>
                /\ \A w \in StartedFor(u) : pc[w] # "raised"
                /\ u \in DOMAIN user_sessions /\ u \in DOMAIN user_stats
                /\ Range(user_sessions[u]) = {WorkerSession(w) : w \in StartedFor(u)}
                /\ Len(user_sessions[u]) = Cardinality(StartedFor(u))
                /\ user_stats[u].total_sessions = Cardinality(StartedFor(u))

\* the user's sessions in the store
SessionsOf(u) == {sid \in DOMAIN sessions : sessions[sid].user_id = u}

\* positions of the challenge_complete interactions of a session
Completions(session) ==
    {i \in 1..Len(session.interactions) : session.interactions[i].type = "challenge_complete"}

\* C4: end_session on a session that is already inactive leaves the session
\* record and the user's total_play_time and total_score as they are, and when
\* the previous call was the end_session of the same session it returns the
\* same summary; in every case it returns the summary of the unchanged record.
C4_EndIdempotent ==
    [][\A sid \in DOMAIN sessions :
          (~sessions[sid].active /\ EndSession({sid})) =>
              LET u == sessions[sid].user_id IN
              /\ sessions'[sid] = sessions[sid]
              /\ user_stats'[u].total_play_time = user_stats[u].total_play_time
              /\ user_stats'[u].total_score = user_stats[u].total_score
              /\ ret'.status = "ok"
              /\ ret'.value = Summary(session_analytics, sid)
              /\ (ret.op = "end_session" /\ ret.session_id = sid) => ret'.value = ret.value
      ]_vars

\* a second end_session has returned, for a session with a score and a duration
C4_Witness ==
    /\ ret.op = "end_session"
    /\ ~ret.was_active
    /\ ret.value.total_score > 0
    /\ ret.value.duration > 0
    /\ user_stats[ret.value.user_id].total_score = ret.value.total_score

\* C5: a session's total_score, once the session is ended, is the sum of the
\* scores its completions returned (a completion without a matching start
\* returns no score and counts 0); the score a completion returns is the one
\* its challenge_complete interaction records.
C5_RoundTrip ==
    /\ \A sid \in DOMAIN sessions :
        ~sessions[sid].active =>
            sessions[sid].total_score =
                SumOver(Completions(sessions[sid]),
                        [i \in Completions(sessions[sid]) |-> sessions[sid].interactions[i].score])
    /\ (ret.op = "log_challenge_complete" /\ ret.status = "ok") =>
            LET log == sessions[ret.session_id].interactions
            IN  /\ log[Len(log)].type = "challenge_complete"
                /\ log[Len(log)].score = ResultScore(ret.value)

\* an ended session with three completions, one of them without a start, and
\* two that scored
C5_Witness ==
    \E sid \in DOMAIN sessions :
        /\ ~sessions[sid].active
        /\ Cardinality(Completions(sessions[sid])) = 3
        /\ Len(sessions[sid].challenge_times) = 2
        /\ \A i \in 1..2 : sessions[sid].challenge_times[i].score > 0

AvgIsQuotient(u) ==
    IF user_stats[u].total_challenges > 0
    THEN user_stats[u].avg_score.num * user_stats[u].total_challenges
             = user_stats[u].total_score * user_stats[u].avg_score.den
    ELSE user_stats[u].avg_score = Zero

\* C6 as claimed: in every state avg_score = total_score / total_challenges
\* (0 when the user has no challenges).
C6_AvgInEveryState == \A u \in DOMAIN user_stats : AvgIsQuotient(u)

\* C6 amended: when end_session has just ended an active session, the user's
\* avg_score = total_score / total_challenges (0 when the user has no
\* challenges).
C6_AvgAfterEnd ==
    (ret.op = "end_session" /\ ret.status = "ok" /\ ret.was_active) =>
        AvgIsQuotient(ret.value.user_id)

\* an end_session that ended a session with a score, of a user with a challenge
C6_Witness ==
    /\ ret.op = "end_session" /\ ret.status = "ok" /\ ret.was_active
    /\ user_stats[ret.value.user_id].total_challenges > 0
    /\ user_stats[ret.value.user_id].avg_score.num > 0
    /\ ret.value.total_score > 0

\* C7 as claimed: a user's total_score is the sum of the total_score fields of
\* the user's ended sessions.
C7_TotalIsSumOfEnded ==
    \A u \in DOMAIN user_stats :
        LET ended == {sid \in SessionsOf(u) : ~sessions[sid].active}
        IN  user_stats[u].total_score =
                SumOver(ended, [sid \in ended |-> sessions[sid].total_score])

\* the user's total_score, 0 before the user has a record
TotalScore(self, u) == IF u \in DOMAIN self.user_stats THEN self.user_stats[u].total_score ELSE 0

\* the user's sessions a step ends: active before, inactive after
Ended(u) ==
    {sid \in SessionsOf(u) :
        /\ sessions[sid].active
        /\ sid \in DOMAIN sessions' /\ ~sessions'[sid].active}

\* C7 amended: a user's total_score is the sum of the total_score values the
\* user's sessions had when they were ended: every step raises it by exactly
\* the total_score of the session the step ends, and by nothing otherwise.
C7_TotalGrowsAtEnd ==
    [][\A u \in Users :
          TotalScore(session_analytics', u) =
              TotalScore(session_analytics, u)
                  + SumOver(Ended(u), [sid \in Ended(u) |-> sessions[sid].total_score])
      ]_vars

\* a user with two ended sessions, one of which carried a score
C7_Witness ==
    \E u \in DOMAIN user_stats :
        \E s1, s2 \in SessionsOf(u) :
            /\ s1 # s2
            /\ ~sessions[s1].active /\ ~sessions[s2].active
            /\ sessions[s1].total_score > 0
            /\ user_stats[u].total_score = sessions[s1].total_score + sessions[s2].total_score

\* no challenge_start interaction of the challenge in the list
NoStartOf(interactions, challenge_id) ==
    \A i \in 1..Len(interactions) :
        ~(interactions[i].type = "challenge_start" /\ interactions[i].challenge_id = challenge_id)

\* C8: log_challenge_complete for a challenge without a challenge_start in the
\* session has duration 0, appends no ChallengeTiming and appends exactly
\* one challenge_complete interaction.
C8_CompleteWithoutStart ==
    [][\A sid \in DOMAIN sessions, ch \in Challenges :
          ( /\ NoStartOf(sessions[sid].interactions, ch.challenge_id)
            /\ LogChallengeComplete({sid}, {ch}, TimeLimitArgs, MaxInteractions) ) =>
              LET before == sessions[sid].interactions
                  after == sessions'[sid].interactions
              IN  /\ ret'.duration = 0
                  /\ sessions'[sid].challenge_times = sessions[sid].challenge_times
                  /\ Len(after) = Len(before) + 1
                  /\ SubSeq(after, 1, Len(before)) = before
                  /\ after[Len(after)].type = "challenge_complete"
                  /\ after[Len(after)].challenge_id = ch.challenge_id
      ]_vars

\* a completion without a start has returned, in a session that holds the
\* start of another challenge
C8_Witness ==
    /\ ret.op = "log_challenge_complete" /\ ret.status = "ok"
    /\ ret.value = EmptyResult
    /\ LET log == sessions[ret.session_id].interactions
       IN  /\ Len(log) = 2
           /\ log[1].type = "challenge_start"
           /\ log[2].type = "challenge_complete"
           /\ log[2].challenge_id # log[1].challenge_id
    /\ sessions[ret.session_id].challenge_times = <<>>

\* some call that takes a session id, made with this id
CallWith(sid) ==
    \/ LogChallengeStart({sid}, OneChallenge, MaxInteractions)
    \/ LogChallengeComplete({sid}, OneChallenge, NoLimit, MaxInteractions)
    \/ LogInteraction({sid}, MaxInteractions)
    \/ EndSession({sid})
    \/ GetSessionSummary({sid})
    \/ GetSession({sid})

\* C9: a call with a session id that names no session raises the not-found
\* error and leaves sessions, user_sessions and user_stats as they were.
C9_UnknownIdRaises ==
    [][\A sid \in IdArgs \ DOMAIN sessions :
          CallWith(sid) =>
              /\ ret'.status = "not_found"
              /\ ret'.session_id = sid
              /\ session_analytics' = session_analytics
      ]_vars

\* a call has raised not-found while the store holds another session
C9_Witness ==
    /\ ret.status = "not_found"
    /\ ret.op = "get_session"
    /\ ret.session_id \notin DOMAIN sessions
    /\ DOMAIN sessions # {}

\* C10: end_time is set exactly when the session is inactive, and an active
\* session has end_time unset and duration 0.
C10_EndTimeIffInactive ==
    \A sid \in DOMAIN sessions :
        /\ (sessions[sid].end_time # None) <=> ~sessions[sid].active
        /\ sessions[sid].active => (sessions[sid].end_time = None /\ sessions[sid].duration = 0)

\* an ended session with a duration beside an active one
C10_Witness ==
    \E s1, s2 \in DOMAIN sessions :
        /\ ~sessions[s1].active /\ sessions[s1].duration > 0
        /\ sessions[s1].end_time = sessions[s1].start_time + sessions[s1].duration
        /\ sessions[s2].active

\* the is_correct argument of the completion a step has just logged
LoggedCorrect(sid) ==
    sessions'[sid].interactions[Len(sessions'[sid].interactions)].is_correct

\* C11: a completion logged with is_correct = false leaves the session's
\* current_streak at 0, a completion with is_correct = true leaves it one
\* higher than before, and current_streak is never negative.
C11_StreakFollowsAnswer ==
    [][\A sid \in DOMAIN sessions :
          LogChallengeComplete({sid}, Challenges, TimeLimitArgs, MaxRound) =>
              /\ sessions'[sid].current_streak =
                     IF LoggedCorrect(sid) THEN sessions[sid].current_streak + 1 ELSE 0
              /\ sessions'[sid].current_streak >= 0
      ]_vars

\* C12: with calls executed one at a time, a user's best_streak is the highest
\* current_streak any of the user's sessions has reached: it is never below
\* the current_streak of one of the user's sessions and it never decreases.
C12_BestStreakIsMax ==
    /\ [](\A u \in DOMAIN user_stats :
            /\ user_stats[u].best_streak = peak_streak[u]
            /\ \A sid \in SessionsOf(u) :
                   user_stats[u].best_streak >= sessions[sid].current_streak)
    /\ [][\A u \in DOMAIN user_stats :
            user_stats'[u].best_streak >= user_stats[u].best_streak]_vars

\* the user's best_streak is 2, the streak one session holds, while another
\* session of the user holds a streak of 1
C12_Witness ==
    \E u \in DOMAIN user_stats :
        \E s1, s2 \in SessionsOf(u) :
            /\ user_stats[u].best_streak = 2
            /\ sessions[s1].current_streak = 2
            /\ sessions[s2].current_streak = 1

\* C13: the update of the consecutive days made by a session start: the
\* user's first one sets consecutive_days to 1; one on the calendar day of
\* last_play_date leaves it unchanged; one exactly a day later adds 1; one
\* after a gap of 2 or more days resets it to 1; each sets last_play_date to
\* today, and play_dates never holds a date twice.
C13_ConsecutiveDays ==
    [][\A u \in OneUser :
          StartSession({u}, {NoSessionId}, MaxDayCalls) =>
              LET after == user_stats'[u]
                  gap == Today(now) - user_stats[u].last_play_date
              IN  /\ after.consecutive_days =
                         IF u \notin DOMAIN user_stats THEN 1
                         ELSE IF gap = 0 THEN user_stats[u].consecutive_days
                         ELSE IF gap = 1 THEN user_stats[u].consecutive_days + 1
                         ELSE 1
                  /\ after.last_play_date = Today(now)
                  /\ Cardinality(Range(after.play_dates)) = Len(after.play_dates)
                  /\ Today(now) \in Range(after.play_dates)
      ]_vars

\* a user who played two days in a row, then again on the second of them, and
\* after a gap of two days came back: the count is back at 1
C13_Witness ==
    \E u \in DOMAIN user_stats :
        /\ user_stats[u].play_dates = <<0, 1, 3>>
        /\ user_stats[u].total_sessions = 4
        /\ user_stats[u].consecutive_days = 1
        /\ user_stats[u].last_play_date = 3

\* C14 as claimed: a validate_answer made when more than time_limit has
\* passed since start_timer never returns true, whether or not stop_timer
\* was called before.
C14_LateNeverCorrect ==
    [][(ValidateAnswer /\ timed._start_time # None
                       /\ now - timed._start_time > timed.time_limit)
           => ~timed_ret'.result
      ]_vars

\* C14 amended: a validate_answer never returns true when the timer has
\* expired, that is when its elapsed time (up to the earlier stop_timer, or up
\* to this call, which stops a running timer) has reached time_limit.
C14_ExpiredNeverCorrect ==
    [][(ValidateAnswer /\ timed._start_time # None) =>
           LET end == IF timed._end_time # None THEN timed._end_time ELSE now
           IN  /\ timed'._end_time = end
               /\ timed'._start_time = timed._start_time
               /\ (end - timed._start_time >= timed.time_limit) => ~timed_ret'.result
      ]_vars

\* the right answer was refused: the timer had run past its limit when
\* validate_answer stopped it
C14_Witness ==
    /\ timed_ret.op = "validate_answer"
    /\ timed_ret.status = "ok"
    /\ ~timed_ret.result
    /\ timed._end_time = now
    /\ timed._end_time - timed._start_time > timed.time_limit

\* the four timer methods that need a started timer
NeedsStart == {"stop_timer", "get_elapsed_time", "get_time_remaining", "is_expired"}

\* the call of one of them
NeedsStartCall(op) ==
    \/ op = "stop_timer" /\ StopTimer
    \/ op = "get_elapsed_time" /\ GetElapsedTime
    \/ op = "get_time_remaining" /\ GetTimeRemaining
    \/ op = "is_expired" /\ IsExpired

\* C15: on a timer that is not started (fresh, or after reset_timer),
\* stop_timer, get_elapsed_time, get_time_remaining and is_expired raise the
\* not-started error and leave _start_time and _end_time as they are; on a
\* started timer none of them raises.
C15_NotStartedRaises ==
    [][\A op \in NeedsStart :
          NeedsStartCall(op) =>
              /\ timed_ret'.op = op
              /\ timed._start_time = None =>
                     (timed_ret'.status = "not_started" /\ timed' = timed)
              /\ timed._start_time # None => timed_ret'.status = "ok"
      ]_vars

\* get_elapsed_time has raised on a timer without a start instant, at a time
\* when the clock has moved on
C15_Witness ==
    /\ timed_ret.op = "get_elapsed_time"
    /\ timed_ret.status = "not_started"
    /\ timed._start_time = None /\ timed._end_time = None
    /\ now > 0

\* C16: on a started timer get_time_remaining returns
\* max(0, time_limit - elapsed), which is never negative; and once the timer
\* is stopped, a clock advance changes neither the elapsed nor the remaining
\* time the timer reports.
C16_RemainingClamped ==
    [][/\ (GetTimeRemaining /\ timed._start_time # None) =>
              LET left == timed.time_limit - Elapsed(timed, now)
              IN  /\ timed_ret'.seconds = IF left > 0 THEN left ELSE 0
                  /\ timed_ret'.seconds >= 0
       /\ (Advance(MaxTimerTime) /\ timed._start_time # None /\ timed._end_time # None) =>
              /\ get_elapsed_time(timed', now').ret = get_elapsed_time(timed, now).ret
              /\ get_time_remaining(timed', now').ret = get_time_remaining(timed, now).ret
      ]_vars

\* get_time_remaining has returned 0 on a running timer that is past its limit
C16_Witness ==
    /\ timed_ret.op = "get_time_remaining"
    /\ timed_ret.status = "ok"
    /\ timed_ret.seconds = 0
    /\ timed._start_time # None /\ timed._end_time = None
    /\ now - timed._start_time > timed.time_limit

\* the bonus as the contract tabulates it, on t / L
BonusTable(t, L) ==
    IF t >= L THEN 0
    ELSE IF 100 * t <= 25 * L THEN 100
    ELSE IF 100 * t <= 50 * L THEN 50
    ELSE IF 100 * t <= 75 * L THEN 25
    ELSE 0

LevelTable(elapsed, L) ==
    IF elapsed > L THEN "timeout"
    ELSE IF 100 * elapsed <= 25 * L THEN "excellent"
    ELSE IF 100 * elapsed <= 50 * L THEN "good"
    ELSE IF 100 * elapsed <= 75 * L THEN "fair"
    ELSE "slow"

C19_IncorrectScoresZero ==
    ~scoring.context.is_correct =>
        /\ scoring.op = "calculate" => scoring.score = 0
        /\ scoring.op = "get_detailed_result" => scoring.detail.score = 0

\* the composite of time, accuracy and streak has scored 0 for a wrong answer
\* given at once, at the first attempt, on a streak of 10
C19_Witness ==
    /\ scoring.op = "calculate"
    /\ score_calculator._strategy = DefaultStrategy
    /\ ~scoring.context.is_correct
    /\ scoring.context.time_taken = 0
    /\ scoring.context.attempts = 1
    /\ scoring.context.streak = 10
    /\ scoring.score = 0

\* the time-based score of a correct answer as the contract tabulates it, on
\* the share of the limit used
TimeTable(time_taken, time_limit) ==
    IF time_taken >= time_limit THEN 0
    ELSE IF 100 * time_taken <= 25 * time_limit THEN 100
    ELSE IF 100 * time_taken <= 50 * time_limit THEN 75
    ELSE IF 100 * time_taken <= 75 * time_limit THEN 50
    ELSE 25

\* C20: the time-based score of a correct answer is 0 when
\* time_taken >= time_limit (equality included); otherwise 100 when at most
\* 25% of the limit was used, 75 at most 50%, 50 at most 75%, and 25 above.
C20_TimeBasedScore ==
    ( /\ scoring.op = "calculate"
      /\ score_calculator._strategy = Simple("time_based")
      /\ scoring.context.is_correct ) =>
        scoring.score = TimeTable(scoring.context.time_taken, scoring.context.time_limit)

\* a correct answer given exactly at the limit has scored 0
C20_Witness ==
    /\ scoring.op = "calculate"
    /\ score_calculator._strategy = Simple("time_based")
    /\ scoring.context.is_correct
    /\ scoring.context.time_taken = scoring.context.time_limit
    /\ scoring.score = 0

\* the score the calculator gives the caller's context with one field replaced
ScoreWith(field, value) ==
    calculate(score_calculator, [scoring.context EXCEPT ![field] = value]).score

\* C21: the accuracy-based score of a correct answer is 100 at attempts 1, 60
\* at 2, 30 at 3 and 0 at every attempts value >= 4; it never increases as
\* attempts grows.
C21_AccuracyScore ==
    ( /\ scoring.op = "calculate"
      /\ score_calculator._strategy = Simple("accuracy_based")
      /\ scoring.context.is_correct ) =>
        /\ scoring.score = CASE scoring.context.attempts = 1 -> 100
                             [] scoring.context.attempts = 2 -> 60
                             [] scoring.context.attempts = 3 -> 30
                             [] scoring.context.attempts >= 4 -> 0
        /\ \A more \in scoring.context.attempts .. MaxAttempts :
               ScoreWith("attempts", more) <= scoring.score

\* a correct answer at the fourth attempt has scored 0
C21_Witness ==
    /\ scoring.op = "calculate"
    /\ score_calculator._strategy = Simple("accuracy_based")
    /\ scoring.context.is_correct
    /\ scoring.context.attempts = 4
    /\ scoring.score = 0

\* C22: the streak-based score of a correct answer is 50 plus a bonus of 50
\* for streak >= 10, 30 for >= 6, 20 for >= 4, 10 for >= 2 and 0 otherwise,
\* capped at 100: streaks 0, 2, 4, 6, 10 give 50, 60, 70, 80, 100, and the
\* score never decreases as the streak grows.
C22_StreakScore ==
    ( /\ scoring.op = "calculate"
      /\ score_calculator._strategy = Simple("streak_based")
      /\ scoring.context.is_correct ) =>
        LET streak == scoring.context.streak
            bonus == CASE streak >= 10 -> 50
                       [] streak >= 6 /\ streak < 10 -> 30
                       [] streak >= 4 /\ streak < 6 -> 20
                       [] streak >= 2 /\ streak < 4 -> 10
                       [] OTHER -> 0
        IN  /\ scoring.score = IF 50 + bonus > 100 THEN 100 ELSE 50 + bonus
            /\ streak = 0 => scoring.score = 50
            /\ streak = 2 => scoring.score = 60
            /\ streak = 4 => scoring.score = 70
            /\ streak = 6 => scoring.score = 80
            /\ streak = 10 => scoring.score = 100
            /\ \A longer \in {x \in ScoreStreaks : x >= streak} :
                   ScoreWith("streak", longer) >= scoring.score

\* a correct answer on a streak of 10 has scored 100
C22_Witness ==
    /\ scoring.op = "calculate"
    /\ score_calculator._strategy = Simple("streak_based")
    /\ scoring.context.is_correct
    /\ scoring.context.streak = 10
    /\ scoring.score = 100

\* C23: every score a calculate call returns, whatever the active strategy
\* (every composite that construction accepted included), is an integer
\* from 0 to 100.
C23_ScoreInRange ==
    scoring.op = "calculate" => scoring.score \in 0 .. 100

\* the weighted sum of the active composite over the context, in hundredths
WeightedSum == SumSeq(WeightedScores(score_calculator._strategy.parts, scoring.context))

WeightsOf(parts) == SumSeq([i \in 1..Len(parts) |-> parts[i].weight])

\* C25: constructing a composite raises exactly when the total weight is
\* below 0.99 or above 1.01, and the calculator never holds a composite
\* whose total weight is outside that range, so none is ever scored with.
C25_ConstructionChecked ==
    /\ scoring.op = "CompositeScoringStrategy" =>
            ( scoring.raised = "ValueError"
                <=> (WeightsOf(scoring.parts) < 99 \/ WeightsOf(scoring.parts) > 101) )
    /\ scoring.op = "CompositeScoringStrategy" /\ scoring.raised = "" =>
            score_calculator._strategy.parts = scoring.parts
    /\ score_calculator._strategy.composite =>
            WeightsOf(score_calculator._strategy.parts) \in 99 .. 101

\* a construction with total weight 0.9 raised and left a composite in place
C25_Witness ==
    /\ scoring.op = "CompositeScoringStrategy"
    /\ scoring.raised = "ValueError"
    /\ WeightsOf(scoring.parts) = 90
    /\ score_calculator._strategy.composite
    /\ score_calculator._strategy.parts # scoring.parts

\* the breakdown a get_detailed_result call on a composite returned
Breakdown == scoring.detail.breakdown

\* C26: the breakdown has one component per (strategy, weight) pair of the
\* composite, in construction order, each with the strategy's name, its
\* score over the context, the pair's weight and weighted_score = score x
\* weight; total_score is what calculate returns for the context and lies
\* within one half of the sum of the weighted_score values.
C26_Breakdown ==
    (scoring.op = "get_detailed_result" /\ score_calculator._strategy.composite) =>
        LET parts == score_calculator._strategy.parts
            listed == Breakdown.components
            total == SumSeq([i \in 1..Len(listed) |-> listed[i].weighted_score])
        IN  /\ Len(listed) = Len(parts)
            /\ \A i \in 1..Len(parts) :
                    /\ listed[i].strategy = parts[i].strategy
                    /\ listed[i].score = SimpleScore(parts[i].strategy, scoring.context)
                    /\ listed[i].weight = parts[i].weight
                    /\ listed[i].weighted_score = listed[i].score * listed[i].weight
            /\ Breakdown.total_score = calculate(score_calculator, scoring.context).score
            /\ 100 * Breakdown.total_score - total \in -50 .. 50

\* a breakdown of three components with different scores that add up to 90
C26_Witness ==
    /\ scoring.op = "get_detailed_result"
    /\ score_calculator._strategy = DefaultStrategy
    /\ Len(Breakdown.components) = 3
    /\ Breakdown.components[1].score = 100
    /\ Breakdown.components[2].score = 100
    /\ Breakdown.components[3].score = 50
    /\ Breakdown.total_score = 90

\* C28: get_detailed_result returns the score calculate gives, the level
\* of that score (excellent from 90, good from 70, fair from 50, else
\* poor), the active strategy's name and the context passed in, and holds
\* a breakdown exactly when the active strategy is a composite.
C28_DetailedResult ==
    scoring.op = "get_detailed_result" =>
        LET detail == scoring.detail
        IN  /\ detail.score = calculate(score_calculator, scoring.context).score
            /\ detail.performance =
                    CASE detail.score >= 90 -> "excellent"
                      [] detail.score \in 70 .. 89 -> "good"
                      [] detail.score \in 50 .. 69 -> "fair"
                      [] detail.score < 50 -> "poor"
            /\ detail.strategy = score_calculator._strategy.name
            /\ detail.context = scoring.context
            /\ detail.has_breakdown <=> score_calculator._strategy.composite

\* a simple strategy scored exactly 50: fair, and no breakdown
C28_Witness ==
    /\ scoring.op = "get_detailed_result"
    /\ ~score_calculator._strategy.composite
    /\ scoring.detail.score = 50
    /\ scoring.detail.performance = "fair"
    /\ ~scoring.detail.has_breakdown

\* the ScoreResult list of a stored session
ScoresOf(session_id) == sessions[session_id].scores

\* C27: a strategy swap changes no session and no user statistics, so no
\* stored ScoreResult and no total_score; a step that adds a ScoreResult
\* to a session keeps the ones already stored as they are, and the result
\* it adds names the strategy that was active in that step and holds that
\* strategy's score.
C27_SwapOnlyLater ==
    [][ /\ score_calculator' # score_calculator =>
                session_analytics' = session_analytics
        /\ \A session_id \in DOMAIN sessions :
                /\ session_id \in DOMAIN sessions'
                /\ Len(ScoresOf(session_id)') > Len(ScoresOf(session_id)) =>
                        SubSeq(ScoresOf(session_id)', 1, Len(ScoresOf(session_id)))
                            = ScoresOf(session_id)
                /\ \A i \in Len(ScoresOf(session_id)) + 1 .. Len(ScoresOf(session_id)') :
                        LET added == ScoresOf(session_id)'[i]
                        IN  /\ added.strategy = score_calculator._strategy.name
                            /\ added.score =
                                    calculate(score_calculator, added.context).score
                            /\ added.has_breakdown = score_calculator._strategy.composite
                            /\ sessions'[session_id].total_score =
                                    sessions[session_id].total_score + added.score
      ]_vars

\* a session holding two results computed by different strategies, ended
C27_Witness ==
    \E session_id \in DOMAIN sessions :
        /\ Len(ScoresOf(session_id)) = 2
        /\ ScoresOf(session_id)[1].strategy = DefaultStrategy.name
        /\ ScoresOf(session_id)[2].strategy = "accuracy_based"
        /\ score_calculator._strategy = TimeAndDifficulty
        /\ ~sessions[session_id].active

MetricNames ==
    {"totalSessions", "totalPlayTime", "totalChallenges", "totalInteractions",
     "consecutiveDays", "avgSessionTime", "totalScore", "avgScore", "bestStreak"}

\* C29: an export asked for a user without statistics returns normally,
\* leaves user_stats and the sessions as they were, and returns the user's
\* id, the fixed activity id and sessionMetrics in which every metric is
\* absent or zero.
C29_ExportWithoutStats ==
    [][ ( /\ ret'.op = "export_analytics"
          /\ ret'.value.studentId \notin DOMAIN user_stats ) =>
            /\ ret'.status = "ok"
            /\ session_analytics' = session_analytics
            /\ ret'.value.activityId = "dia-noite-animals"
            /\ \A metric \in MetricNames :
                    \/ metric \notin DOMAIN ret'.value.sessionMetrics
                    \/ ret'.value.sessionMetrics[metric] = 0
      ]_vars

\* the export of a user without statistics, next to a user who has some
C29_Witness ==
    /\ ret.op = "export_analytics"
    /\ ret.status = "ok"
    /\ ret.value.studentId \notin DOMAIN user_stats
    /\ ret.value.sessionMetrics = EmptyMap
    /\ \E user_id \in DOMAIN user_stats : user_stats[user_id].total_challenges > 0

\* the number of challenge_start interactions of a challenge in a session
StartsOf(session_id, challenge_id) ==
    LET interactions == sessions[session_id].interactions
    IN  Cardinality({i \in 1..Len(interactions) :
                        /\ interactions[i].type = "challenge_start"
                        /\ interactions[i].challenge_id = challenge_id})

\* the number of ChallengeTiming records of a challenge in a session
TimingsOf(session_id, challenge_id) ==
    LET challenge_times == sessions[session_id].challenge_times
    IN  Cardinality({i \in 1..Len(challenge_times) :
                        challenge_times[i].challenge_id = challenge_id})

\* C30: a challenge_start is matched by at most one completion, so in
\* every session the ChallengeTiming records of a challenge id are never
\* more than the challenge_start interactions of that id.
C30_OneTimingPerStart ==
    \A session_id \in DOMAIN sessions, challenge_id \in ChallengeIds :
        TimingsOf(session_id, challenge_id) <= StartsOf(session_id, challenge_id)

\* the interactions recorded under a session id
InteractionsOf(session_id) == sessions[session_id].interactions

\* the step keeps the interactions of the session as a prefix
KeepsInteractions(session_id) ==
    /\ session_id \in DOMAIN sessions'
    /\ Len(InteractionsOf(session_id)') >= Len(InteractionsOf(session_id))
    /\ SubSeq(InteractionsOf(session_id)', 1, Len(InteractionsOf(session_id)))
            = InteractionsOf(session_id)

\* the step is a logging call on the session
LogsOn(session_id) ==
    \/ LogChallengeStart({session_id}, Challenges, MaxInteractions)
    \/ LogChallengeComplete({session_id}, Challenges, TimeLimitArgs, MaxInteractions)
    \/ LogInteraction({session_id}, MaxInteractions)

\* the step is a start_session call that stores its session under the id
StartsUnder(session_id) ==
    \E user_id \in Users, id_arg \in SessionIdArgs :
        /\ SessionIdFor(user_id, id_arg, now) = session_id
        /\ ret' = Returned("start_session", session_id, <<>>)
        /\ session_analytics' = start_session(session_analytics, user_id, id_arg, now)

\* C31: after any operation the interactions recorded under a session id
\* before it are a prefix of those recorded after it, and each logging
\* operation appends exactly one interaction.
C31_AppendOnly ==
    [][\A session_id \in DOMAIN sessions :
          /\ KeepsInteractions(session_id)
          /\ LogsOn(session_id) =>
                Len(InteractionsOf(session_id)') = Len(InteractionsOf(session_id)) + 1
      ]_vars

\* C31, amended: every operation but a start_session that stores a new
\* session under the id keeps the recorded interactions as a prefix, each
\* logging operation appends exactly one interaction, and such a
\* start_session leaves the id with no interactions.
C31_AppendOnlyUntilRestart ==
    [][\A session_id \in DOMAIN sessions :
          /\ StartsUnder(session_id) =>
                session_id \in DOMAIN sessions' /\ InteractionsOf(session_id)' = <<>>
          /\ ~StartsUnder(session_id) => KeepsInteractions(session_id)
          /\ LogsOn(session_id) =>
                Len(InteractionsOf(session_id)') = Len(InteractionsOf(session_id)) + 1
      ]_vars

\* a session that holds two interactions, the second logged on it after
\* it had ended
C31_Witness ==
    \E session_id \in DOMAIN sessions :
        /\ Len(InteractionsOf(session_id)) = 2
        /\ InteractionsOf(session_id)[1].type = "challenge_start"
        /\ InteractionsOf(session_id)[2].type = "click"
        /\ ~sessions[session_id].active
        /\ ret.op = "log_interaction"

\* the ChallengeTiming records of a challenge in a session record, in order
TimingsIn(session, challenge_id) ==
    SelectSeq(session.challenge_times, LAMBDA timing : timing.challenge_id = challenge_id)

\* C32: in a session kept by the components, the attempts value of every
\* ChallengeTiming record is at least 1 and is the attempt counter of the
\* challenge at that completion, a counter that every completion raises
\* by 1: a challenge with k records has a counter of at least k, and its
\* k-th record holds attempts >= k.
C32_AttemptsNumbered ==
    \A session_id \in DOMAIN managed, challenge_id \in ChallengeIds :
        LET timings == TimingsIn(managed[session_id], challenge_id)
        IN  \A k \in 1..Len(timings) :
                /\ timings[k].attempts >= 1
                /\ timings[k].attempts >= k
                /\ Get(managed[session_id].current_challenge_attempts, challenge_id, 0) >= k

\* the user's total_play_time, 0 before the user has a record
TotalPlayTime(self, u) ==
    IF u \in DOMAIN self.user_stats THEN self.user_stats[u].total_play_time ELSE 0

\* C33 as claimed: in every state a user's total_play_time is the sum of
\* the durations of the user's ended sessions.
C33_PlayTimeIsSumOfEnded ==
    \A u \in DOMAIN user_stats :
        LET ended == {sid \in SessionsOf(u) : ~sessions[sid].active}
        IN  user_stats[u].total_play_time =
                SumOver(ended, [sid \in ended |-> sessions[sid].duration])

\* C33, amended: a user's total_play_time changes only in a step that
\* turns one of the user's sessions from active to inactive, where it
\* grows by the duration that step gives the session, which is not
\* negative.
C33_PlayTimeGrowsAtEnd ==
    [][\A u \in Users :
          /\ TotalPlayTime(session_analytics', u) =
                TotalPlayTime(session_analytics, u)
                    + SumOver(Ended(u), [sid \in Ended(u) |-> sessions'[sid].duration])
          /\ \A sid \in Ended(u) : sessions'[sid].duration >= 0
      ]_vars

\* a user whose play time of 1 comes from a session ended after one tick
C33_Witness ==
    /\ ret.op = "end_session" /\ ret.status = "ok" /\ ret.was_active
    /\ sessions[ret.session_id].duration = 1
    /\ user_stats[sessions[ret.session_id].user_id].total_play_time = 1

\* C34: a create call with a caller-supplied id that is already stored
\* leaves under that id, in SessionAnalytics and in the SessionManager
\* alike, the fresh record of the new caller (active, end_time unset,
\* duration 0, counters 0, no interactions, timings or scores), and that
\* record is what get returns for the id afterwards.
C34_CustomIdReplaces ==
    [][\A user_id \in Users, session_id \in CustomIds :
          (/\ session_id \in DOMAIN sessions
           /\ session_id \in DOMAIN managed
           /\ BothCreate({user_id}, {session_id}, MaxCalls))
          => LET fresh == NewSession(session_id, user_id, now)
                 got == get_session(session_analytics', session_id)
             IN  /\ session_id \in DOMAIN sessions'
                 /\ sessions'[session_id] = fresh
                 /\ managed'[session_id] = fresh
                 /\ got.ret.status = "ok"
                 /\ got.ret.value = fresh
                 /\ fresh.active /\ fresh.end_time = None /\ fresh.duration = 0
                 /\ fresh.challenges_attempted = 0 /\ fresh.total_score = 0
                 /\ fresh.current_streak = 0
                 /\ fresh.interactions = <<>> /\ fresh.challenge_times = <<>>
                 /\ fresh.scores = <<>>
                 /\ fresh.current_challenge_attempts = EmptyMap
      ]_vars

\* the id 's1', under which u1 had logged an interaction, now names a
\* fresh session of u2
C34_Witness ==
    /\ ret = Returned("start_session", "s1", <<>>)
    /\ "s1" \in DOMAIN sessions
    /\ sessions["s1"] = NewSession("s1", "u2", now)
    /\ managed["s1"] = NewSession("s1", "u2", now)
    /\ "u1" \in DOMAIN user_stats
    /\ user_stats["u1"].total_interactions > 0
    /\ user_sessions["u1"] = <<"s1">>

\* C35: create calls that supply no session id yield distinct ids and
\* distinct stored sessions: when every session was started without an id,
\* no user's list holds an id twice and there are as many stored sessions
\* as start_session calls.
C35_GeneratedIdsDistinct ==
    /\ \A u \in DOMAIN user_sessions :
          \A i, j \in 1..Len(user_sessions[u]) :
              i # j => user_sessions[u][i] # user_sessions[u][j]
    /\ Cardinality(DOMAIN sessions) = Started

\* C36: in every state of a started timer the verdicts agree: is_expired()
\* is true exactly when get_time_performance_level() is 'timeout', and
\* when is_expired() is true calculate_time_bonus() is 0 and
\* validate_answer returns false for every answer.
C36_VerdictsAgree ==
    ~NotStarted(timed) =>
        LET expired == is_expired(timed, now).ret.result
            level == get_time_performance_level(timed, now).ret.level
        IN  /\ expired <=> level = "timeout"
            /\ expired =>
                  /\ calculate_time_bonus(timed, None, now).ret.seconds = 0
                  /\ \A answer \in Answers :
                        ~validate_answer(timed, answer, now).ret.result

\* C36, amended: in every state of a started timer, a level of 'timeout'
\* implies is_expired(); is_expired() with another level happens only
\* when the elapsed time equals the limit, where the level is 'slow'; and
\* when is_expired() is true calculate_time_bonus() is 0 and
\* validate_answer returns false for every answer.
C36_VerdictsAgreeOffLimit ==
    ~NotStarted(timed) =>
        LET expired == is_expired(timed, now).ret.result
            level == get_time_performance_level(timed, now).ret.level
            elapsed == get_elapsed_time(timed, now).ret.seconds
        IN  /\ level = "timeout" => expired
            /\ (expired /\ level # "timeout") =>
                  elapsed = timed.time_limit /\ level = "slow"
            /\ elapsed = timed.time_limit => expired /\ level = "slow"
            /\ expired =>
                  /\ calculate_time_bonus(timed, None, now).ret.seconds = 0
                  /\ \A answer \in Answers :
                        ~validate_answer(timed, answer, now).ret.result

\* a timer stopped by validate_answer exactly at its limit: the right
\* answer was refused, and the level of the timer is 'slow'
C36_Witness ==
    /\ timed_ret.op = "validate_answer" /\ timed_ret.status = "ok"
    /\ ~timed_ret.result
    /\ timed._end_time # None
    /\ timed._end_time - timed._start_time = timed.time_limit
    /\ Expired(timed, now)
    /\ TimePerformance(Elapsed(timed, now), timed.time_limit) = "slow"

\* C37: in every state user_sessions and user_stats have the same users,
\* and for every user total_sessions is the length of the user's list,
\* the list holds no session id twice, and every id in it names a stored
\* session whose user_id is that user.
C37_IndexesConsistent ==
    /\ DOMAIN user_sessions = DOMAIN user_stats
    /\ \A u \in DOMAIN user_sessions :
          LET ids == user_sessions[u]
          IN  /\ user_stats[u].total_sessions = Len(ids)
              /\ \A i, j \in 1..Len(ids) : i # j => ids[i] # ids[j]
              /\ \A i \in 1..Len(ids) :
                    /\ ids[i] \in DOMAIN sessions
                    /\ sessions[ids[i]].user_id = u

\* the sessions stored for a user in a SessionAnalytics
OwnedBy(self, u) == {sid \in DOMAIN self.sessions : self.sessions[sid].user_id = u}

\* interactions recorded in the user's stored sessions
InteractionsIn(self, u) ==
    SumOver(OwnedBy(self, u),
            [sid \in OwnedBy(self, u) |-> Len(self.sessions[sid].interactions)])

\* challenges_attempted summed over the user's stored sessions
AttemptedIn(self, u) ==
    SumOver(OwnedBy(self, u),
            [sid \in OwnedBy(self, u) |-> self.sessions[sid].challenges_attempted])

\* a field of the user's statistics, 0 before the user has a record
StatOf(self, u, field) ==
    IF u \in DOMAIN self.user_stats THEN self.user_stats[u][field] ELSE 0

\* challenges_attempted of every session is the number of its
\* challenge_start interactions
AttemptedAreStarts(self) ==
    \A sid \in DOMAIN self.sessions :
        self.sessions[sid].challenges_attempted =
            Cardinality({i \in 1..Len(self.sessions[sid].interactions) :
                            self.sessions[sid].interactions[i].type = "challenge_start"})

\* C38 as claimed: in every state a user's total_interactions is the number
\* of interactions recorded in the user's sessions, total_challenges is
\* the sum of their challenges_attempted, and challenges_attempted of a
\* session is the number of its challenge_start interactions.
C38_TotalsAreSums ==
    /\ \A u \in DOMAIN user_stats :
          /\ user_stats[u].total_interactions = InteractionsIn(session_analytics, u)
          /\ user_stats[u].total_challenges = AttemptedIn(session_analytics, u)
    /\ AttemptedAreStarts(session_analytics)

\* C38, amended: a create call leaves every user's total_interactions and
\* total_challenges as they are, whatever it does to the stored records;
\* every other step changes them by what it adds to the user's stored
\* sessions, one interaction at most; the totals are never below the sums
\* over the stored sessions; and challenges_attempted of every session is
\* the number of its challenge_start interactions.
C38_TotalsCountCalls ==
    [][/\ \A u \in Users :
             LET interactions == StatOf(session_analytics, u, "total_interactions")
                 challenges == StatOf(session_analytics, u, "total_challenges")
                 interactions_after == StatOf(session_analytics', u, "total_interactions")
                 challenges_after == StatOf(session_analytics', u, "total_challenges")
             IN  /\ BothCreate(Users, SessionIdArgs, MaxCalls) =>
                       /\ interactions_after = interactions
                       /\ challenges_after = challenges
                 /\ ~BothCreate(Users, SessionIdArgs, MaxCalls) =>
                       /\ interactions_after - interactions =
                             InteractionsIn(session_analytics', u)
                                 - InteractionsIn(session_analytics, u)
                       /\ interactions_after - interactions \in {0, 1}
                       /\ challenges_after - challenges =
                             AttemptedIn(session_analytics', u)
                                 - AttemptedIn(session_analytics, u)
                       /\ challenges_after - challenges \in {0, 1}
                 /\ interactions_after >= InteractionsIn(session_analytics', u)
                 /\ challenges_after >= AttemptedIn(session_analytics', u)
       /\ AttemptedAreStarts(session_analytics')
      ]_vars

\* u1 has logged a challenge start and its completion on a session that
\* has then been replaced: the totals are 2 and 1, the stored sessions of
\* u1 hold nothing
C38_Witness ==
    /\ "u1" \in DOMAIN user_stats
    /\ user_stats["u1"].total_interactions = 2
    /\ user_stats["u1"].total_challenges = 1
    /\ InteractionsIn(session_analytics, "u1") = 0
    /\ ret.op = "start_session"

\* the part of a session record that its end fixes
EndedRecord(session) ==
    [interactions |-> session.interactions,
     challenge_times |-> session.challenge_times,
     scores |-> session.scores,
     total_score |-> session.total_score,
     current_streak |-> session.current_streak,
     challenges_attempted |-> session.challenges_attempted,
     end_time |-> session.end_time,
     duration |-> session.duration]

\* C39: a log_challenge_start, log_challenge_complete or log_interaction on
\* the id of an inactive session leaves its interactions, challenge_times,
\* scores, total_score, current_streak, challenges_attempted, end_time and
\* duration as they were.
C39_EndedIsFrozen ==
    [][\A session_id \in DOMAIN sessions :
          (~sessions[session_id].active /\ LogsOn(session_id)) =>
              /\ session_id \in DOMAIN sessions'
              /\ EndedRecord(sessions'[session_id]) = EndedRecord(sessions[session_id])
      ]_vars

\* what the two implementations are compared on
Observed(session) ==
    [active |-> session.active,
     end_time |-> session.end_time,
     challenges_attempted |-> session.challenges_attempted,
     interaction_types |->
         [i \in 1..Len(session.interactions) |-> session.interactions[i].type],
     current_challenge_attempts |-> session.current_challenge_attempts,
     challenge_times |-> session.challenge_times]

\* C40: after the same sequence of create, log start, log complete (with
\* the same score result), log interaction and end calls, the
\* SessionManager with the EventTracker holds the same session ids as the
\* SessionAnalytics, and each session has the same active, end_time,
\* challenges_attempted, interaction types in order, attempt counters and
\* ChallengeTiming records.
C40_ComponentsEquivalent ==
    /\ DOMAIN managed = DOMAIN sessions
    /\ \A session_id \in DOMAIN sessions :
          Observed(managed[session_id]) = Observed(sessions[session_id])
====
